---- MODULE Spec2Model ----
(***************************************************************************)
(* Dialogue orchestration engine of the AI Calendar Assistant backend:     *)
(* IntentProcessor (services/intentProcessor.js), the NLU adapter          *)
(* QwenService (services/qwenService.js), the intent registry              *)
(* (constants/intents.js) and the socket / webhook transports that call    *)
(* processMessage.                                                         *)
(*                                                                         *)
(* JavaScript runs one callback to completion between two awaits on a      *)
(* network round trip, so every action below is the code executed from the *)
(* moment one collaborator call settles up to the next collaborator call   *)
(* (or the return of the handler).                                         *)
(*                                                                         *)
(* Confidence scores are percentages (0.7 is 70, 0.5 is 50).               *)
(***************************************************************************)
EXTENDS Integers, Sequences, FiniteSets, TLC

VARIABLES
    sessions,    \* IntentProcessor.userSessions: userId -> session (or absent)
    appendLog,   \* history: every turn ever pushed on a user's conversationHistory
    calendar,    \* the calendar collaborator's store: the ids of the events it holds
    callLog,     \* history: the calendar requests issued, in order
    proc,        \* per message: the locals of its processMessage invocation
    arrivals,    \* number of messages the transports have delivered so far
    nluText,     \* the NLU completion handed to parseIntentResponse
    parsed,      \* what parseIntentResponse returned for nluText
    clock,       \* Date.now() in hours, and the number of sweeps run so far
    merge,       \* CalendarService.updateEvent: one update taken from fetch to store
    calendarService, \* CalendarService: its tokens, the shared oauth2Client, its calls
    client       \* the chat client (useChat) and the events in flight to and from it

vars ==
    <<sessions, appendLog, calendar, callLog, proc, arrivals, nluText, parsed, clock,
      merge, calendarService, client>>

(***************************************************************************)
(* Bounds of the model.                                                    *)
(***************************************************************************)
MaxMsgs == 2        \* messages delivered in one behaviour
MaxAppends == 11    \* direct updateUserSession calls per user (SpecHistory)
MaxIntents == 2     \* longest multipleIntents array the NLU returns (SpecPipeline)
MaxClock == 26      \* hour at which the clock stops (SpecSweep)
MaxSweeps == 2      \* runs of the hourly sweep (SpecSweep)
TripMsgs == 3      \* messages of one round trip (SpecRoundTrip)
ConfSpread == 2     \* confidences tried on each side of the threshold (SpecAdapter)

Users == {"u1", "u2"}
MsgIds == 1..MaxMsgs

(***************************************************************************)
(* constants/intents.js                                                    *)
(***************************************************************************)
INTENTS ==
    {"create_event", "update_event", "cancel_event", "prepare_event",
     "followup_event", "list_events", "get_information", "help_request",
     "general_chat"}

\* REQUIRED_FIELDS[intent] || []  (an intent absent from the table needs nothing)
REQUIRED_FIELDS(intent) ==
    CASE intent = "create_event"   -> <<"title", "date", "time">>
      [] intent = "update_event"   -> <<"event_identifier">>
      [] intent = "cancel_event"   -> <<"event_identifier">>
      [] intent = "prepare_event"  -> <<"event_identifier">>
      [] intent = "followup_event" -> <<"event_identifier", "followupDays">>
      [] OTHER                     -> <<>>

CONFIDENCE_THRESHOLD == 70

FieldNames ==
    {"title", "date", "time", "location", "attendees", "description",
     "event_identifier", "followupDays", "userMessage"}

(***************************************************************************)
(* JavaScript values as the code sees them.                                *)
(*   A field map is kind "map" with the keys holding a truthy value and    *)
(*   the keys holding a falsy one ("", 0, null); kind "absent" is a        *)
(*   missing / undefined `fields`.                                         *)
(*   A sub-intent is kind "obj" or the JSON value null.                    *)
(***************************************************************************)
FieldMap(truthy, falsy) == [kind |-> "map", truthy |-> truthy, falsy |-> falsy]
NoFieldMap == [kind |-> "absent", truthy |-> {}, falsy |-> {}]

\* !fields[field] is false
Truthy(fields, f) == f \in fields.truthy

\* intent "" is a missing / falsy intent; confIsNumber is typeof confidence === "number"
IntentObj(intent, confIsNumber, confidence, fields) ==
    [kind |-> "obj", intent |-> intent, confIsNumber |-> confIsNumber,
     confidence |-> confidence, fields |-> fields]
NullIntent ==
    [kind |-> "null", intent |-> "", confIsNumber |-> FALSE, confidence |-> 0,
     fields |-> NoFieldMap]

Max(a, b) == IF a >= b THEN a ELSE b
Min(a, b) == IF a <= b THEN a ELSE b

Range(s) == {s[k] : k \in 1..Len(s)}

RECURSIVE SelectSeqBy(_, _)
\* Array.prototype.filter over a sequence of field names, keeping order
SelectSeqBy(s, keep) ==
    IF s = <<>> THEN <<>>
    ELSE IF Head(s) \in keep THEN <<Head(s)>> \o SelectSeqBy(Tail(s), keep)
    ELSE SelectSeqBy(Tail(s), keep)

\* Array.prototype.slice(-n)
SliceLast(s, n) ==
    IF Len(s) <= n THEN s ELSE SubSeq(s, Len(s) - n + 1, Len(s))

(***************************************************************************)
(* Session store: getUserSession / updateUserSession                       *)
(***************************************************************************)
HistoryCap == 20

NoPending == [set |-> FALSE, intent |-> "", fields |-> NoFieldMap, missingFields |-> <<>>]

\* session.context: undefined or null, or the object updateUserContext stores
NoContext == [active |-> FALSE, type |-> "", eventId |-> 0]

\* A user without a session.  `created` counts the session objects made for the
\* user so far: it identifies the object the store holds (a session deleted and
\* created again is another object).
NoSession ==
    [exists |-> FALSE, conversationHistory |-> <<>>, pendingIntent |-> NoPending,
     context |-> NoContext, lastActivity |-> 0, created |-> 0]

\* the object getUserSession stores for a user it has not seen
NewSession ==
    [exists |-> TRUE, conversationHistory |-> <<>>, pendingIntent |-> NoPending,
     context |-> NoContext, lastActivity |-> clock.now, created |-> 1]

\* the mutant of C23: one lookup creates the missing session of every user
getUserSession_AllUsers(S, u) ==
    [v \in DOMAIN S |->
        IF S[v].exists THEN S[v] ELSE [NewSession EXCEPT !.created = S[v].created + 1]]

\* the store after getUserSession(userId): the session is created lazily
getUserSession(S, u) ==
    IF S[u].exists THEN S
    ELSE [S EXCEPT ![u] = [NewSession EXCEPT !.created = S[u].created + 1]]

Turn(role, content) == [role |-> role, content |-> content]

\* the mutant of C3: slice(-20) applied before the push, so 22 turns survive
updateUserSession_TrimFirst(S, u, message, response) ==
    LET S1 == getUserSession(S, u)
        h  == SliceLast(S1[u].conversationHistory, HistoryCap)
    IN  [S1 EXCEPT ![u].conversationHistory =
                      h \o <<Turn("user", message), Turn("assistant", response)>>,
                  ![u].lastActivity = clock.now]

\* the mutant of C35: the window keeps an odd number of turns, slice(-19)
updateUserSession_OddWindow(S, u, message, response) ==
    LET S1 == getUserSession(S, u)
        h  == S1[u].conversationHistory
                \o <<Turn("user", message), Turn("assistant", response)>>
    IN  [S1 EXCEPT ![u].conversationHistory =
                      IF Len(h) > HistoryCap THEN SliceLast(h, HistoryCap - 1) ELSE h,
                  ![u].lastActivity = clock.now]

updateUserSession(S, u, message, response) ==
    LET S1 == getUserSession(S, u)
        h  == S1[u].conversationHistory
                \o <<Turn("user", message), Turn("assistant", response)>>
    IN  [S1 EXCEPT ![u].conversationHistory =
                      IF Len(h) > HistoryCap THEN SliceLast(h, HistoryCap) ELSE h,
                  ![u].lastActivity = clock.now]

\* history variable kept beside updateUserSession: what was pushed, untrimmed
LogAppend(L, u, message, response) ==
    [L EXCEPT ![u] = @ \o <<Turn("user", message), Turn("assistant", response)>>]

\* cleanupOldSessions: 24 * 60 * 60 * 1000 ms, in hours
maxAge == 24

\* the mutant of C14: the age test is dropped, every session is deleted
cleanupOldSessions_NoAgeTest(S) ==
    [u \in DOMAIN S |-> [NoSession EXCEPT !.created = S[u].created]]

\* IntentProcessor.cleanupOldSessions at time clock.now
cleanupOldSessions(S) ==
    [u \in DOMAIN S |->
        IF S[u].exists /\ clock.now - S[u].lastActivity > maxAge
        THEN [NoSession EXCEPT !.created = S[u].created]
        ELSE S[u]]

(***************************************************************************)
(* QwenService.parseIntentResponse                                         *)
(*   An NLU completion is: no JSON object in the text ("none"), text that  *)
(*   JSON.parse rejects ("bad"), or a parsed object ("obj") with           *)
(*     multi: "absent" | "notarray" | "array" and its elements,            *)
(*     intent, confidence, fields as in IntentObj.                         *)
(***************************************************************************)
NluObj(multi, elems, intent, confIsNumber, confidence, fields) ==
    [json |-> "obj", multi |-> multi, elems |-> elems, intent |-> intent,
     confIsNumber |-> confIsNumber, confidence |-> confidence, fields |-> fields]
NluGarbage(json) ==
    [json |-> json, multi |-> "absent", elems |-> <<>>, intent |-> "",
     confIsNumber |-> FALSE, confidence |-> 0, fields |-> NoFieldMap]

\* what the adapter returns: a single extraction (multi = "absent"/"notarray")
\* or the raw multi-intent object (multi = "array")
GeneralChatFallback ==
    [multi |-> "absent", elems |-> <<>>, intent |-> "general_chat",
     confIsNumber |-> TRUE, confidence |-> 50, fields |-> FieldMap({}, {})]

\* the mutant of C4: the threshold test is dropped
parseIntentResponse_NoThreshold(text) ==
    IF text.json # "obj" THEN GeneralChatFallback
    ELSE IF text.multi = "array" THEN
        [multi |-> "array", elems |-> text.elems, intent |-> text.intent,
         confIsNumber |-> text.confIsNumber, confidence |-> text.confidence,
         fields |-> text.fields]
    ELSE IF text.intent = "" \/ ~text.confIsNumber \/ text.fields.kind = "absent"
        THEN GeneralChatFallback
    ELSE [multi |-> text.multi, elems |-> text.elems, intent |-> text.intent,
          confIsNumber |-> TRUE,
          confidence |-> Max(0, Min(100, text.confidence)),
          fields |-> text.fields]

parseIntentResponse(text) ==
    IF text.json # "obj" THEN GeneralChatFallback
    ELSE IF text.multi = "array" THEN
        [multi |-> "array", elems |-> text.elems, intent |-> text.intent,
         confIsNumber |-> text.confIsNumber, confidence |-> text.confidence,
         fields |-> text.fields]
    ELSE IF text.intent = "" \/ ~text.confIsNumber \/ text.fields.kind = "absent"
        THEN GeneralChatFallback
    ELSE LET c == Max(0, Min(100, text.confidence))
         IN  IF c < CONFIDENCE_THRESHOLD THEN GeneralChatFallback
             ELSE [multi |-> text.multi, elems |-> text.elems,
                   intent |-> text.intent, confIsNumber |-> TRUE,
                   confidence |-> c, fields |-> text.fields]

(***************************************************************************)
(* Texts shown to the user.  A text is identified by its template; `names` *)
(* are the field labels a clarification lists, `action` the blocked action *)
(* it mentions; raw = TRUE marks the message of a caught exception that    *)
(* was not written for the user (a TypeError, "Unsupported intent: X").    *)
(***************************************************************************)
Text(t) == [text |-> t, action |-> "", names |-> <<>>, raw |-> FALSE]
RawText(t) == [text |-> t, action |-> "", names |-> <<>>, raw |-> TRUE]
NoText == Text("")

\* the fieldNames table of generateClarificationMessage (fieldNames[field] || field)
fieldNames(f) ==
    CASE f = "title"            -> "event title"
      [] f = "event_identifier" -> "event identifier"
      [] f = "followupDays"     -> "number of days for follow-up"
      [] OTHER                  -> f

getIntentAction(intent) ==
    CASE intent = "create_event"   -> "create the event"
      [] intent = "update_event"   -> "update the event"
      [] intent = "cancel_event"   -> "cancel the event"
      [] intent = "prepare_event"  -> "prepare for the event"
      [] intent = "followup_event" -> "schedule the follow-up"
      [] OTHER                     -> "complete this action"

generateClarificationMessage(intent, missingFields) ==
    [text |-> IF Len(missingFields) = 1
              THEN "I need the <name> to <action>. Please provide it."
              ELSE "I need the following information to <action>: <names>. Please provide these details.",
     action |-> getIntentAction(intent),
     names |-> [k \in 1..Len(missingFields) |-> fieldNames(missingFields[k])],
     raw |-> FALSE]

(***************************************************************************)
(* QwenService.parseEventSearchResponse                                    *)
(*   The matcher's completion: json as above; valid = success is a boolean *)
(*   and confidence a number; event id 0 is `"event": null`.               *)
(***************************************************************************)
MatchObj(valid, success, eventId, confidence) ==
    [json |-> "obj", valid |-> valid, success |-> success, eventId |-> eventId,
     confidence |-> confidence]
MatchGarbage(json) ==
    [json |-> json, valid |-> FALSE, success |-> FALSE, eventId |-> 0, confidence |-> 0]

MatchFailure(message) ==
    [success |-> FALSE, event |-> 0, confidence |-> 0, message |-> Text(message)]

parseEventSearchResponse(text, calendarEvents) ==
    IF text.json = "none" THEN MatchFailure("Could not parse AI response")
    ELSE IF text.json = "bad" THEN MatchFailure("Failed to parse AI response")
    ELSE IF ~text.valid THEN MatchFailure("Invalid AI response format")
    ELSE IF text.success /\ text.eventId # 0 /\ text.eventId \notin calendarEvents
        THEN MatchFailure("AI suggested event not found in calendar")
    ELSE [success |-> text.success, event |-> text.eventId,
          confidence |-> text.confidence, message |-> Text("<matcher message>")]

(***************************************************************************)
(* IntentProcessor.resolveEventIdentifier                                  *)
(*   The four objects it returns, and the status the resolver contract     *)
(*   (found | ambiguous | not_found) gives each of them.                   *)
(***************************************************************************)
Resolution(success, event, message, multipleMatches) ==
    [set |-> TRUE, success |-> success, event |-> event, message |-> message,
     multipleMatches |-> multipleMatches]

NoResolution == [set |-> FALSE, success |-> FALSE, event |-> 0, message |-> NoText,
                 multipleMatches |-> FALSE]

\* lines 700-705: the calendar returned no event
ResolveEmptyCalendar ==
    Resolution(FALSE, 0, Text("No events found in your calendar."), FALSE)
\* lines 734-740: searchEvents or findMatchingEvent threw
ResolveError ==
    Resolution(FALSE, 0, Text("Error searching for events. Please try again."), FALSE)

\* lines 718-733: what is returned once the matcher has answered
resolveEventIdentifier(aiResult) ==
    IF aiResult.success /\ aiResult.event # 0
    THEN Resolution(TRUE, aiResult.event, aiResult.message, FALSE)
    ELSE Resolution(FALSE, 0,
            Text("Multiple events found matching <identifier>. Please be more specific:"),
            TRUE)

ResolutionStatus(r) ==
    IF r.success THEN "found"
    ELSE IF r.multipleMatches THEN "ambiguous"
    ELSE "not_found"

(***************************************************************************)
(* Values local to one processMessage invocation.                          *)
(***************************************************************************)
ResolvingIntents == {"update_event", "cancel_event", "prepare_event", "followup_event"}

NoVR ==
    [set |-> FALSE, intent |-> "", confIsNumber |-> FALSE, confidence |-> 0,
     fields |-> NoFieldMap, requiresAction |-> FALSE, needsClarification |-> FALSE,
     missingFields |-> <<>>, clarificationMessage |-> NoText, resolvedEvent |-> 0]

\* ActionResult.data: event 0 is "no event"
NoData == [action |-> "", event |-> 0, events |-> {}, notes |-> NoText]
Data(action, event) == [action |-> action, event |-> event, events |-> {}, notes |-> NoText]

ActionOk(type, message, data) ==
    [success |-> TRUE, type |-> type, message |-> message, error |-> NoText, data |-> data]
\* the mutant of C18: a handler's catch reports the failure as a success
ActionFailed_Succeeds(error) ==
    [success |-> TRUE, type |-> "", message |-> NoText, error |-> error, data |-> NoData]

ActionFailed(error) ==
    [success |-> FALSE, type |-> "", message |-> NoText, error |-> error, data |-> NoData]

NoReport == [set |-> FALSE, results |-> <<>>, totalIntents |-> 0, successfulIntents |-> 0]
NoResult ==
    [set |-> FALSE, success |-> FALSE, intent |-> "", confIsNumber |-> FALSE,
     confidence |-> 0, response |-> NoText, error |-> NoText, data |-> NoData,
     report |-> NoReport]

NoCall == [handler |-> "", req |-> "", id |-> 0]

\* What the continuation heuristics of checkContextContinuation see of a message:
\*   emailWord: the lower-cased text includes "email", "@" or "add";
\*   address, location, description: the e-mail regex, the location/where regex,
\*   the description/note regex matches (an address contains "@").
MessageText(emailWord, address, location, description) ==
    [emailWord |-> emailWord \/ address, address |-> address,
     location |-> location, description |-> description]
OtherText == MessageText(FALSE, FALSE, FALSE, FALSE)
EmailText == MessageText(TRUE, TRUE, FALSE, FALSE)

\* history: how the NLU call of detectMultipleIntents settled: it threw, or its
\* completion was of kind json, with multipleIntents absent / not an array / an
\* array of `length` elements
NoDetection == [set |-> FALSE, threw |-> FALSE, json |-> "none", multi |-> "absent",
                length |-> 0]

\* history: how the extractIntent call of a message settled
NoExtraction == [set |-> FALSE, threw |-> FALSE, text |-> NluGarbage("none")]

\* history: the ActionResult an execute* handler returned last, and which of its
\* collaborator calls failed ("none", "calendar" or "nlu")
NoHandled == [set |-> FALSE, handler |-> "", failed |-> "none", ar |-> ActionFailed(NoText)]

\* The locals of one processMessage invocation.  sessionRead / sessionWritten are
\* history: the session object (its `created` number) that getUserSession returned
\* at line 24, and the one that received the history append.
IdleProc ==
    [pc |-> "idle", user |-> "", transport |-> "", text |-> OtherText,
     multi |-> FALSE, intents |-> <<>>,
     i |-> 0, results |-> <<>>, allSuccessful |-> TRUE, vr |-> NoVR,
     events |-> {}, matchText |-> MatchGarbage("none"), resolution |-> NoResolution,
     call |-> NoCall, result |-> NoResult,
     detection |-> NoDetection, extraction |-> NoExtraction, handled |-> NoHandled,
     sessionRead |-> 0, sessionWritten |-> 0]

\* one entry of the calendar request log
Call(m, step, purpose, req, id) ==
    [msg |-> m, step |-> step, purpose |-> purpose, req |-> req, id |-> id]

(***************************************************************************)
(* IntentProcessor.validateAndResolve, up to the await on                  *)
(* resolveEventIdentifier.  out: "throw" (a TypeError), "resolve" (the     *)
(* resolver is called) or "done" (vr is the value returned).               *)
(***************************************************************************)
BaseVR(x, fields) ==
    [set |-> TRUE, intent |-> x.intent, confIsNumber |-> x.confIsNumber,
     confidence |-> x.confidence, fields |-> fields, requiresAction |-> FALSE,
     needsClarification |-> FALSE, missingFields |-> <<>>,
     clarificationMessage |-> NoText, resolvedEvent |-> 0]

\* requiredFields.filter((field) => !fields[field])
MissingFields(x) ==
    LET required == REQUIRED_FIELDS(x.intent)
    IN  SelectSeqBy(required, {f \in Range(required) : ~Truthy(x.fields, f)})

\* the mutant of C10 (session half): the clarification is returned without
\* storing the PendingIntent
validateAndResolve_NoPending(x, S, u) ==
    IF x.kind = "null" THEN [out |-> "throw", vr |-> NoVR, S |-> S]
    ELSE IF x.intent = "general_chat"
        THEN [out |-> "done", vr |-> BaseVR(x, FieldMap({}, {})), S |-> S]
    ELSE LET S1 == getUserSession(S, u)
         IN  IF REQUIRED_FIELDS(x.intent) # <<>> /\ x.fields.kind = "absent"
                THEN [out |-> "throw", vr |-> NoVR, S |-> S1]
             ELSE IF MissingFields(x) # <<>>
                THEN [out |-> "done",
                      vr |-> [BaseVR(x, x.fields) EXCEPT
                                !.needsClarification = TRUE,
                                !.missingFields = MissingFields(x),
                                !.clarificationMessage =
                                    generateClarificationMessage(x.intent, MissingFields(x))],
                      S |-> S1]
             ELSE IF x.intent \in ResolvingIntents
                THEN [out |-> "resolve", vr |-> BaseVR(x, x.fields), S |-> S1]
             ELSE [out |-> "done",
                   vr |-> [BaseVR(x, x.fields) EXCEPT !.requiresAction = TRUE],
                   S |-> S1]

\* the mutant of C36: an intent with all its required fields consumes the
\* PendingIntent of the session
validateAndResolve_ConsumesPending(x, S, u) ==
    IF x.kind = "null" THEN [out |-> "throw", vr |-> NoVR, S |-> S]
    ELSE IF x.intent = "general_chat"
        THEN [out |-> "done", vr |-> BaseVR(x, FieldMap({}, {})), S |-> S]
    ELSE LET S1 == getUserSession(S, u)
             S2 == [S1 EXCEPT ![u].pendingIntent = NoPending]
         IN  IF REQUIRED_FIELDS(x.intent) # <<>> /\ x.fields.kind = "absent"
                THEN [out |-> "throw", vr |-> NoVR, S |-> S1]
             ELSE IF MissingFields(x) # <<>>
                THEN [out |-> "done",
                      vr |-> [BaseVR(x, x.fields) EXCEPT
                                !.needsClarification = TRUE,
                                !.missingFields = MissingFields(x),
                                !.clarificationMessage =
                                    generateClarificationMessage(x.intent, MissingFields(x))],
                      S |-> [S1 EXCEPT ![u].pendingIntent =
                                [set |-> TRUE, intent |-> x.intent, fields |-> x.fields,
                                 missingFields |-> MissingFields(x)]]]
             ELSE IF x.intent \in ResolvingIntents
                THEN [out |-> "resolve", vr |-> BaseVR(x, x.fields), S |-> S2]
             ELSE [out |-> "done",
                   vr |-> [BaseVR(x, x.fields) EXCEPT !.requiresAction = TRUE],
                   S |-> S2]

validateAndResolve(x, S, u) ==
    IF x.kind = "null" THEN [out |-> "throw", vr |-> NoVR, S |-> S]
    ELSE IF x.intent = "general_chat"
        THEN [out |-> "done", vr |-> BaseVR(x, FieldMap({}, {})), S |-> S]
    ELSE LET S1 == getUserSession(S, u)
         IN  IF REQUIRED_FIELDS(x.intent) # <<>> /\ x.fields.kind = "absent"
                THEN [out |-> "throw", vr |-> NoVR, S |-> S1]
             ELSE IF MissingFields(x) # <<>>
                THEN [out |-> "done",
                      vr |-> [BaseVR(x, x.fields) EXCEPT
                                !.needsClarification = TRUE,
                                !.missingFields = MissingFields(x),
                                !.clarificationMessage =
                                    generateClarificationMessage(x.intent, MissingFields(x))],
                      S |-> [S1 EXCEPT ![u].pendingIntent =
                                [set |-> TRUE, intent |-> x.intent, fields |-> x.fields,
                                 missingFields |-> MissingFields(x)]]]
             ELSE IF x.intent \in ResolvingIntents
                THEN [out |-> "resolve", vr |-> BaseVR(x, x.fields), S |-> S1]
             ELSE [out |-> "done",
                   vr |-> [BaseVR(x, x.fields) EXCEPT !.requiresAction = TRUE],
                   S |-> S1]

\* the mutant of C28: the event is attached and the action required whatever
\* the resolver answered
validateAfterResolve_AlwaysActs(vr, resolutionResult) ==
    [vr EXCEPT !.requiresAction = TRUE, !.resolvedEvent = resolutionResult.event]

\* validateAndResolve lines 405-428: the resolver has answered
validateAfterResolve(vr, resolutionResult) ==
    IF ~resolutionResult.success
    THEN [vr EXCEPT !.needsClarification = TRUE,
                    !.clarificationMessage = resolutionResult.message]
    ELSE [vr EXCEPT !.requiresAction = TRUE,
                    !.resolvedEvent = resolutionResult.event]

(***************************************************************************)
(* IntentProcessor.executeAction, up to the first collaborator call of the *)
(* handler.  out: "result" (ar is returned), "throw" (Unsupported intent)  *)
(* or "call" (the handler's first calendar request `call` is issued).      *)
(***************************************************************************)
StaticChat == ActionOk("chat", Text("<assistant help text>"), NoData)

executeAction(vr) ==
    IF ~vr.requiresAction /\ vr.needsClarification
        THEN [out |-> "result", call |-> NoCall,
              ar |-> ActionOk("clarification", vr.clarificationMessage, NoData)]
    ELSE IF vr.intent \in {"general_chat", "get_information", "help_request"}
        THEN [out |-> "result", call |-> NoCall, ar |-> StaticChat]
    ELSE IF vr.intent = "create_event"
        THEN [out |-> "call", ar |-> StaticChat,
              call |-> [handler |-> "create", req |-> "insert", id |-> 0]]
    ELSE IF vr.intent = "update_event"
        THEN [out |-> "call", ar |-> StaticChat,
              call |-> [handler |-> "update", req |-> "get", id |-> vr.resolvedEvent]]
    ELSE IF vr.intent = "cancel_event"
        THEN [out |-> "call", ar |-> StaticChat,
              call |-> [handler |-> "cancel", req |-> "delete", id |-> vr.resolvedEvent]]
    ELSE IF vr.intent = "prepare_event"
        THEN [out |-> "call", ar |-> StaticChat,
              call |-> [handler |-> "prepare", req |-> "get", id |-> vr.resolvedEvent]]
    ELSE IF vr.intent = "followup_event"
        THEN [out |-> "call", ar |-> StaticChat,
              call |-> [handler |-> "followup", req |-> "get", id |-> vr.resolvedEvent]]
    ELSE IF vr.intent = "list_events"
        THEN IF vr.fields.kind = "absent"
             THEN [out |-> "result", call |-> NoCall,
                   ar |-> ActionFailed(RawText("TypeError: Cannot destructure property 'userMessage'"))]
             ELSE [out |-> "call", ar |-> StaticChat,
                   call |-> [handler |-> "list", req |-> "list", id |-> 0]]
    ELSE [out |-> "throw", call |-> NoCall, ar |-> StaticChat]

\* IntentProcessor.generateFeedback
generateFeedback(ar) ==
    IF ar.type \in {"clarification", "chat"} THEN ar.message
    ELSE IF ar.success
        THEN (IF ar.message = NoText THEN Text("Action completed successfully.")
              ELSE ar.message)
    ELSE (IF ar.error = NoText THEN Text("Action failed. Please try again.")
          ELSE ar.error)

(***************************************************************************)
(* The synchronous stretches of processMessage / executeMultipleIntents.   *)
(* A machine state M is [m, p, S, L, C]: the message, its locals, the      *)
(* session store, the append history and the calendar request log.         *)
(***************************************************************************)
Apology ==
    Text("I apologize, but I encountered an error processing your request. Please try again.")
MultiApology ==
    Text("I encountered an error while processing multiple actions. Please try again.")
CombinedMessage == Text("I've executed the following actions: <one line per step>")

\* the transports, once processMessage has returned `result`:
\* app.js socket.on('chat_message') and webhookController.handleWebhook without
\* req.user append the turn again when result.success
TransportAppend(M) ==
    IF M.p.result.success /\ M.p.transport \in {"socket", "webhook"}
    THEN [M EXCEPT !.S = updateUserSession(M.S, M.p.user, M.m, M.m),
                   !.L = LogAppend(M.L, M.p.user, M.m, M.m)]
    ELSE M

Return(M, result) ==
    TransportAppend([M EXCEPT !.p.pc = "done", !.p.result = result])

\* processMessage lines 62-77: feedback, history, the success result
FinishSingle(M, ar) ==
    LET S1 == updateUserSession(M.S, M.p.user, M.m, M.m)
        M1 == [M EXCEPT !.S = S1,
                        !.L = LogAppend(M.L, M.p.user, M.m, M.m),
                        !.p.sessionWritten = S1[M.p.user].created]
    IN  Return(M1, [set |-> TRUE, success |-> TRUE, intent |-> M.p.vr.intent,
                    confIsNumber |-> M.p.vr.confIsNumber,
                    confidence |-> M.p.vr.confidence,
                    response |-> generateFeedback(ar), error |-> NoText,
                    data |-> ar.data, report |-> NoReport])

\* the mutant of C19: the catch of processMessage rethrows to its caller
CatchSingle_Rethrow(M, error) ==
    [M EXCEPT !.p.pc = "rejected"]

\* processMessage lines 78-86: the catch
CatchSingle(M, error) ==
    Return(M, [NoResult EXCEPT !.set = TRUE, !.error = error, !.response = Apology])

\* executeMultipleIntents lines 311-325: history, the aggregate report
FinishMulti(M) ==
    LET S1 == updateUserSession(M.S, M.p.user, M.m, M.m)
        M1 == [M EXCEPT !.S = S1,
                        !.L = LogAppend(M.L, M.p.user, M.m, M.m),
                        !.p.sessionWritten = S1[M.p.user].created]
        results == M.p.results
    IN  Return(M1, [set |-> TRUE, success |-> M.p.allSuccessful,
                    intent |-> "multiple_intents", confIsNumber |-> TRUE,
                    confidence |-> 90, response |-> CombinedMessage,
                    error |-> NoText, data |-> Data("multiple_intents", 0),
                    report |-> [set |-> TRUE, results |-> results,
                                totalIntents |-> Len(M.p.intents),
                                successfulIntents |->
                                    Cardinality({k \in 1..Len(results) : results[k].success})]])

\* executeMultipleIntents lines 326-336: the outer catch
CatchMulti(M, error) ==
    Return(M, [NoResult EXCEPT !.set = TRUE, !.intent = "multiple_intents",
                               !.confIsNumber = TRUE, !.error = error,
                               !.response = MultiApology])

StepResult(success, intent, message, data) ==
    [success |-> success, intent |-> intent, message |-> message, data |-> data]

RECURSIVE RunStep(_)
RECURSIVE StepDone(_, _)
RECURSIVE Dispatch(_)

\* the calendar requests that would undo the events created by the successful
\* steps among results[1..n]
RECURSIVE RollbackCalls(_, _, _, _)
RollbackCalls(m, step, results, n) ==
    IF n = 0 THEN <<>>
    ELSE RollbackCalls(m, step, results, n - 1)
         \o (IF results[n].success /\ results[n].data.action = "create_event"
             THEN <<Call(m, step, "rollback", "delete", results[n].data.event)>>
             ELSE <<>>)

\* the mutant of C9: a step that does not succeed makes the loop issue
\* compensating deletes for the events created by the earlier steps
StepDone_Rollback(M, o) ==
    LET x == M.p.intents[M.p.i]
    IN  IF ~M.p.multi THEN
            IF o.kind = "throw" THEN CatchSingle(M, o.error) ELSE FinishSingle(M, o.ar)
        ELSE IF o.kind = "throw" /\ x.kind = "null" THEN CatchMulti(M, o.error)
        ELSE
            LET entry ==
                    IF o.kind = "clarify"
                        THEN StepResult(FALSE, x.intent, M.p.vr.clarificationMessage, NoData)
                    ELSE IF o.kind = "throw"
                        THEN StepResult(FALSE, x.intent, o.error, NoData)
                    ELSE IF o.ar.success
                        THEN StepResult(TRUE, x.intent, o.ar.message, o.ar.data)
                    ELSE StepResult(FALSE, x.intent,
                            IF o.ar.error = NoText THEN Text("Action failed") ELSE o.ar.error,
                            NoData)
                M1 == [M EXCEPT !.p.results = Append(@, entry),
                                !.p.allSuccessful = @ /\ entry.success,
                                !.p.i = @ + 1,
                                !.C = IF entry.success THEN @
                                      ELSE @ \o RollbackCalls(M.m, M.p.i, M.p.results,
                                                              Len(M.p.results))]
            IN  IF M1.p.i > Len(M1.p.intents) THEN FinishMulti(M1) ELSE RunStep(M1)

\* the mutant of C8: a step that ends in a clarification leaves allSuccessful set
StepDone_ClarifyKeepsSuccess(M, o) ==
    LET x == M.p.intents[M.p.i]
    IN  IF ~M.p.multi THEN
            IF o.kind = "throw" THEN CatchSingle(M, o.error) ELSE FinishSingle(M, o.ar)
        ELSE IF o.kind = "throw" /\ x.kind = "null" THEN CatchMulti(M, o.error)
        ELSE
            LET entry ==
                    IF o.kind = "clarify"
                        THEN StepResult(FALSE, x.intent, M.p.vr.clarificationMessage, NoData)
                    ELSE IF o.kind = "throw"
                        THEN StepResult(FALSE, x.intent, o.error, NoData)
                    ELSE IF o.ar.success
                        THEN StepResult(TRUE, x.intent, o.ar.message, o.ar.data)
                    ELSE StepResult(FALSE, x.intent,
                            IF o.ar.error = NoText THEN Text("Action failed") ELSE o.ar.error,
                            NoData)
                M1 == [M EXCEPT !.p.results = Append(@, entry),
                                !.p.allSuccessful = @ /\ (entry.success \/ o.kind = "clarify"),
                                !.p.i = @ + 1]
            IN  IF M1.p.i > Len(M1.p.intents) THEN FinishMulti(M1) ELSE RunStep(M1)

\* the end of one iteration of the loop of executeMultipleIntents (lines 258-309),
\* or of steps 4-5 of processMessage.  o is what the step produced:
\*   kind "clarify" (validation asked for clarification; multi path only),
\*        "ar" (executeAction returned o.ar), "throw" (o.error was thrown)
StepDone(M, o) ==
    LET x == M.p.intents[M.p.i]
    IN  IF ~M.p.multi THEN
            IF o.kind = "throw" THEN CatchSingle(M, o.error) ELSE FinishSingle(M, o.ar)
        \* the per-step catch reads intent.intent: on a null element it throws again
        ELSE IF o.kind = "throw" /\ x.kind = "null" THEN CatchMulti(M, o.error)
        ELSE
            LET entry ==
                    IF o.kind = "clarify"
                        THEN StepResult(FALSE, x.intent, M.p.vr.clarificationMessage, NoData)
                    ELSE IF o.kind = "throw"
                        THEN StepResult(FALSE, x.intent, o.error, NoData)
                    ELSE IF o.ar.success
                        THEN StepResult(TRUE, x.intent, o.ar.message, o.ar.data)
                    ELSE StepResult(FALSE, x.intent,
                            IF o.ar.error = NoText THEN Text("Action failed") ELSE o.ar.error,
                            NoData)
                M1 == [M EXCEPT !.p.results = Append(@, entry),
                                !.p.allSuccessful = @ /\ entry.success,
                                !.p.i = @ + 1]
            IN  IF M1.p.i > Len(M1.p.intents) THEN FinishMulti(M1) ELSE RunStep(M1)

Clarified == [kind |-> "clarify", ar |-> StaticChat, error |-> NoText]
Acted(ar) == [kind |-> "ar", ar |-> ar, error |-> NoText]
Thrown(error) == [kind |-> "throw", ar |-> StaticChat, error |-> error]

\* the validation result M.p.vr is ready: the clarification shortcut of the loop
\* (lines 258-269), else executeAction
Dispatch(M) ==
    IF M.p.multi /\ M.p.vr.needsClarification THEN StepDone(M, Clarified)
    ELSE LET e == executeAction(M.p.vr)
         IN  IF e.out = "result" THEN StepDone(M, Acted(e.ar))
             ELSE IF e.out = "throw"
                THEN StepDone(M, Thrown(RawText("Unsupported intent: <intent>")))
             ELSE [M EXCEPT !.p.pc = "cal", !.p.call = e.call,
                            !.C = Append(@, Call(M.m, M.p.i, e.call.handler,
                                                 e.call.req, e.call.id))]

\* validateAndResolve is called on intents[i]
RunStep(M) ==
    LET v == validateAndResolve(M.p.intents[M.p.i], M.S, M.p.user)
        M1 == [M EXCEPT !.S = v.S, !.p.vr = v.vr, !.p.events = {},
                        !.p.matchText = MatchGarbage("none"),
                        !.p.resolution = NoResolution, !.p.call = NoCall]
    IN  IF v.out = "throw"
            THEN StepDone(M1, Thrown(RawText("TypeError: Cannot read properties")))
        ELSE IF v.out = "resolve"
            THEN [M1 EXCEPT !.p.pc = "search",
                            !.C = Append(@, Call(M.m, M.p.i, "resolve", "list", 0))]
        ELSE Dispatch(M1)

(***************************************************************************)
(* Actions.                                                                *)
(***************************************************************************)
MOf(m) == [m |-> m, p |-> proc[m], S |-> sessions, L |-> appendLog, C |-> callLog]

Commit(M) ==
    /\ proc' = [proc EXCEPT ![M.m] = M.p]
    /\ sessions' = M.S
    /\ appendLog' = M.L
    /\ callLog' = M.C

\* IntentProcessor.parseMultipleIntents
parseMultipleIntents(response) ==
    IF response.multi = "array" THEN response.elems ELSE <<>>

\* A transport delivers the next message of user u: processMessage runs up to the
\* await on detectMultipleIntents.  Messages are numbered in arrival order.
Arrive(m, u, transport, text) ==
    /\ m = arrivals + 1
    /\ proc[m].pc = "idle"
    /\ arrivals' = m
    /\ sessions' = getUserSession(sessions, u)
    /\ proc' = [proc EXCEPT ![m] =
                    [IdleProc EXCEPT !.pc = "detect", !.user = u, !.transport = transport,
                                     !.text = text,
                                     !.sessionRead = getUserSession(sessions, u)[u].created]]
    /\ UNCHANGED <<appendLog, calendar, callLog, nluText, merge, calendarService, client, parsed, clock>>

\* the mutant of C25: a detection list of one sub-intent is dispatched as a
\* compound message
DetectReturn_DispatchesOne(m, threw, text) ==
    /\ proc[m].pc = "detect"
    /\ LET multipleIntents ==
               IF threw THEN <<>> ELSE parseMultipleIntents(parseIntentResponse(text))
           M == [MOf(m) EXCEPT !.p.detection =
                                   [set |-> TRUE, threw |-> threw, json |-> text.json,
                                    multi |-> text.multi, length |-> Len(text.elems)]]
       IN  IF Len(multipleIntents) > 0
           THEN Commit(RunStep([M EXCEPT !.p.multi = TRUE,
                                         !.p.intents = multipleIntents,
                                         !.p.i = 1]))
           ELSE Commit([M EXCEPT !.p.pc = "extract"])
    /\ UNCHANGED <<calendar, arrivals, nluText, merge, calendarService, client, parsed, clock>>

\* detectMultipleIntents settles: its NLU call threw, or answered `text`
DetectReturn(m, threw, text) ==
    /\ proc[m].pc = "detect"
    /\ LET multipleIntents ==
               IF threw THEN <<>> ELSE parseMultipleIntents(parseIntentResponse(text))
           M == [MOf(m) EXCEPT !.p.detection =
                                   [set |-> TRUE, threw |-> threw, json |-> text.json,
                                    multi |-> text.multi, length |-> Len(text.elems)]]
       IN  IF Len(multipleIntents) > 1
           THEN Commit(RunStep([M EXCEPT !.p.multi = TRUE,
                                         !.p.intents = multipleIntents,
                                         !.p.i = 1]))
           ELSE Commit([M EXCEPT !.p.pc = "extract"])
    /\ UNCHANGED <<calendar, arrivals, nluText, merge, calendarService, client, parsed, clock>>

\* the object extractIntent returns: the adapter's result, seen as an intent
Extraction(r) ==
    IntentObj(r.intent, r.confIsNumber, r.confidence, r.fields)

\* qwenService.extractIntent settles (processMessage step 3)
ExtractReturn(m, threw, text) ==
    /\ proc[m].pc = "extract"
    /\ IF threw
       THEN Commit(CatchSingle([MOf(m) EXCEPT !.p.extraction =
                                    [set |-> TRUE, threw |-> TRUE, text |-> text]],
                               Text("Failed to extract intent from message")))
       ELSE Commit(RunStep([MOf(m) EXCEPT
                                !.p.extraction =
                                    [set |-> TRUE, threw |-> FALSE, text |-> text],
                                !.p.intents = <<Extraction(parseIntentResponse(text))>>,
                                !.p.i = 1]))
    /\ UNCHANGED <<calendar, arrivals, nluText, merge, calendarService, client, parsed, clock>>

AfterResolve(M, r) ==
    Dispatch([M EXCEPT !.p.resolution = r, !.p.vr = validateAfterResolve(@, r)])

\* calendarService.searchEvents settles inside resolveEventIdentifier
SearchReturn(m, ok) ==
    /\ proc[m].pc = "search"
    /\ IF ~ok THEN Commit(AfterResolve(MOf(m), ResolveError))
       ELSE IF calendar.events = {} THEN Commit(AfterResolve(MOf(m), ResolveEmptyCalendar))
       ELSE Commit([MOf(m) EXCEPT !.S = getUserSession(@, proc[m].user),
                                  !.p.events = calendar.events,
                                  !.p.pc = "match"])
    /\ UNCHANGED <<calendar, arrivals, nluText, merge, calendarService, client, parsed, clock>>

\* qwenService.findMatchingEvent settles inside resolveEventIdentifier
MatchReturn(m, threw, text) ==
    /\ proc[m].pc = "match"
    /\ IF threw THEN Commit(AfterResolve(MOf(m), ResolveError))
       ELSE Commit(AfterResolve([MOf(m) EXCEPT !.p.matchText = text],
                        resolveEventIdentifier(
                            parseEventSearchResponse(text, proc[m].events))))
    /\ UNCHANGED <<calendar, arrivals, nluText, merge, calendarService, client, parsed, clock>>

\* the calendar collaborator: a request on an event succeeds only if it holds it
CanSucceed(call) ==
    call.req \in {"get", "update", "delete"} => call.id \in calendar.events

\* the mutant of C21: a delete request that leaves the event in the calendar
CalendarAfter_DeleteKeeps(call) ==
    CASE call.req = "insert" ->
            [calendar EXCEPT !.events = @ \cup {calendar.nextId}, !.nextId = @ + 1]
      [] call.req = "update" -> [calendar EXCEPT !.updated = @ \cup {call.id}]
      [] OTHER -> calendar

CalendarAfter(call) ==
    CASE call.req = "insert" ->
            [calendar EXCEPT !.events = @ \cup {calendar.nextId}, !.nextId = @ + 1]
      [] call.req = "update" -> [calendar EXCEPT !.updated = @ \cup {call.id}]
      [] call.req = "delete" -> [calendar EXCEPT !.events = @ \ {call.id}]
      [] OTHER -> calendar

\* the message with which each calendarService method rethrows
HandlerFailure(handler) ==
    CASE handler = "create"   -> Text("Failed to create calendar event")
      [] handler = "update"   -> Text("Failed to update calendar event")
      [] handler = "cancel"   -> Text("Failed to cancel calendar event")
      [] handler = "prepare"  -> Text("Failed to retrieve event details")
      [] handler = "followup" -> Text("Failed to create follow-up event")
      [] OTHER                -> Text("Failed to search calendar events")

\* an execute* handler returns ar; `failed` names the collaborator call of the
\* handler that failed, if one did
Handled(M, failed, ar) ==
    StepDone([M EXCEPT !.p.handled = [set |-> TRUE, handler |-> M.p.call.handler,
                                      failed |-> failed, ar |-> ar]],
             Acted(ar))

NextCall(M, req, id) ==
    [M EXCEPT !.p.call.req = req, !.p.call.id = id,
              !.C = Append(@, Call(M.m, M.p.i, M.p.call.handler, req, id))]

\* a calendar request of an execute* handler settles
CalendarReturn(m, ok) ==
    /\ proc[m].pc = "cal"
    /\ ok => CanSucceed(proc[m].call)
    /\ calendar' = IF ok THEN CalendarAfter(proc[m].call) ELSE calendar
    /\ LET M == MOf(m)
           c == proc[m].call
       IN  IF ~ok THEN Commit(Handled(M, "calendar", ActionFailed(HandlerFailure(c.handler))))
           ELSE CASE c.handler = "create" ->
                    Commit(Handled(M, "none", ActionOk("calendar_action",
                        Text("Event <title> created successfully"),
                        Data("create_event", calendar.nextId))))
                  [] c.handler = "update" /\ c.req = "get" ->
                    Commit(NextCall(M, "update", c.id))
                  [] c.handler = "update" /\ c.req = "update" ->
                    Commit(Handled(M, "none", ActionOk("calendar_action",
                        Text("Event <title> updated successfully"),
                        Data("update_event", c.id))))
                  [] c.handler = "cancel" ->
                    Commit(Handled(M, "none", ActionOk("calendar_action",
                        Text("Event cancelled successfully"),
                        Data("cancel_event", c.id))))
                  [] c.handler = "prepare" ->
                    Commit([M EXCEPT !.p.pc = "nlu"])
                  [] c.handler = "followup" /\ c.req = "get" ->
                    Commit(NextCall(M, "insert", 0))
                  [] c.handler = "followup" /\ c.req = "insert" ->
                    Commit(Handled(M, "none", ActionOk("calendar_action",
                        Text("Event <title> created successfully"),
                        Data("followup_event", calendar.nextId))))
                  [] OTHER ->      \* executeListEvents: searchEvents answered
                    Commit([M EXCEPT !.S = getUserSession(@, proc[m].user),
                                     !.p.events = calendar.events,
                                     !.p.pc = "nlu"])
    /\ UNCHANGED <<arrivals, nluText, merge, calendarService, client, parsed, clock>>

\* the mutant of C30: generateEventNotes rethrows, so executePrepareEvent's catch
\* returns the failure
NluTextReturn_NotesFailureFails(m, ok) ==
    /\ proc[m].pc = "nlu"
    /\ LET M == MOf(m)
           c == proc[m].call
       IN  IF c.handler = "prepare"
           THEN IF ok
                THEN Commit(Handled(M, "none", ActionOk("calendar_action",
                        Text("Here are the details and notes for your event:"),
                        [Data("prepare_event", c.id) EXCEPT !.notes =
                            Text("<generated notes>")])))
                ELSE Commit(Handled(M, "nlu", ActionFailed(
                        Text("Failed to generate chat response"))))
           ELSE IF ok
           THEN Commit(Handled(M, "none", ActionOk("calendar_info",
                    Text("<generated event list answer>"),
                    [NoData EXCEPT !.events = proc[m].events])))
           ELSE Commit(Handled(M, "nlu", ActionFailed(
                    Text("Failed to generate event list response"))))
    /\ UNCHANGED <<calendar, arrivals, nluText, merge, calendarService, client, parsed, clock>>

\* the text generation call of executePrepareEvent (generateEventNotes) or of
\* executeListEvents (generateEventListResponse) settles
NluTextReturn(m, ok) ==
    /\ proc[m].pc = "nlu"
    /\ LET M == MOf(m)
           c == proc[m].call
       IN  IF c.handler = "prepare"
           THEN Commit(Handled(M, IF ok THEN "none" ELSE "nlu", ActionOk("calendar_action",
                    Text("Here are the details and notes for your event:"),
                    [Data("prepare_event", c.id) EXCEPT !.notes =
                        IF ok THEN Text("<generated notes>")
                        ELSE Text("Unable to generate notes at this time.")])))
           ELSE IF ok
           THEN Commit(Handled(M, "none", ActionOk("calendar_info",
                    Text("<generated event list answer>"),
                    [NoData EXCEPT !.events = proc[m].events])))
           ELSE Commit(Handled(M, "nlu", ActionFailed(
                    Text("Failed to generate event list response"))))
    /\ UNCHANGED <<calendar, arrivals, nluText, merge, calendarService, client, parsed, clock>>

(***************************************************************************)
(* Conversation context: updateUserContext, checkContextContinuation and   *)
(* continueEventUpdate.  processMessage and executeMultipleIntents call    *)
(* none of the three; the actions below are direct calls of the methods.   *)
(***************************************************************************)
\* IntentProcessor.updateUserContext
updateUserContext(S, u, validationResult, actionResult) ==
    LET S1 == getUserSession(S, u)
    IN  IF validationResult.intent = "update_event" /\ actionResult.data.event # 0
        THEN [S1 EXCEPT ![u].context =
                [active |-> TRUE, type |-> "event_update",
                 eventId |-> actionResult.data.event]]
        ELSE [S1 EXCEPT ![u].context = NoContext]

\* IntentProcessor.checkContextContinuation up to its await: out is "null" (the
\* method returns null) or "continue" (continueEventUpdate is called with patch)
checkContextContinuation(text, S, u) ==
    LET S1 == getUserSession(S, u)
        context == S1[u].context
        null == [out |-> "null", eventId |-> 0, patch |-> "", S |-> S1]
        continue(patch) ==
            [out |-> "continue", eventId |-> context.eventId, patch |-> patch, S |-> S1]
    IN  IF ~context.active THEN null
        ELSE IF context.type = "event_update" /\ context.eventId # 0
            THEN IF text.emailWord /\ text.address THEN continue("attendees")
                 ELSE IF text.location THEN continue("location")
                 ELSE IF text.description THEN continue("description")
                 ELSE null
        ELSE null

\* a message is handed to checkContextContinuation
ContextMessage(m, u, text) ==
    /\ m = arrivals + 1
    /\ proc[m].pc = "idle"
    /\ arrivals' = m
    /\ LET r == checkContextContinuation(text, sessions, u)
           p == [IdleProc EXCEPT !.user = u, !.transport = "direct", !.text = text,
                                 !.sessionRead = r.S[u].created]
       IN  /\ sessions' = r.S
           /\ IF r.out = "continue"
              THEN /\ proc' = [proc EXCEPT ![m] =
                        [p EXCEPT !.pc = "continue",
                                  !.call = [handler |-> "continue", req |-> "update",
                                            id |-> r.eventId]]]
                   /\ callLog' = Append(callLog,
                        Call(m, 0, "continue", "update", r.eventId))
              ELSE /\ proc' = [proc EXCEPT ![m] = [p EXCEPT !.pc = "done"]]
                   /\ UNCHANGED callLog
    /\ UNCHANGED <<appendLog, calendar, nluText, merge, calendarService, client, parsed, clock>>

\* IntentProcessor.continueEventUpdate: calendarService.updateEvent settles
continueEventUpdate(m, ok) ==
    /\ proc[m].pc = "continue"
    /\ ok => CanSucceed(proc[m].call)
    /\ calendar' = IF ok THEN CalendarAfter(proc[m].call) ELSE calendar
    /\ LET u == proc[m].user
           S1 == getUserSession(sessions, u)
       IN  IF ok
           THEN /\ sessions' = [S1 EXCEPT ![u].context = NoContext]
                /\ proc' = [proc EXCEPT ![m].pc = "done", ![m].result =
                        [NoResult EXCEPT !.set = TRUE, !.success = TRUE,
                            !.intent = "update_event", !.confIsNumber = TRUE,
                            !.confidence = 95,
                            !.response = Text("Event <title> updated successfully"),
                            !.data = Data("update_event", proc[m].call.id)]]
           ELSE /\ sessions' = sessions
                /\ proc' = [proc EXCEPT ![m].pc = "done", ![m].result =
                        [NoResult EXCEPT !.set = TRUE,
                            !.error = HandlerFailure("update")]]
    /\ UNCHANGED <<appendLog, callLog, arrivals, nluText, merge, calendarService, client, parsed, clock>>

\* updateUserContext is called for user u after an action of `intent` on event e
ContextUpdate(u, intent, e) ==
    /\ sessions' = updateUserContext(sessions, u, [NoVR EXCEPT !.set = TRUE, !.intent = intent],
                        ActionOk("calendar_action", Text("Event <title> updated successfully"),
                                 Data(intent, e)))
    /\ UNCHANGED <<appendLog, calendar, callLog, proc, arrivals, nluText, merge, calendarService, client, parsed, clock>>

(***************************************************************************)
(* What the collaborators may answer.                                      *)
(***************************************************************************)
Sub(intent, truthy, falsy) == IntentObj(intent, FALSE, 0, FieldMap(truthy, falsy))

CreateFull == Sub("create_event", {"title", "date", "time"}, {})
CreateTitleOnly == Sub("create_event", {"title"}, {})
CreateEmptyTitle == Sub("create_event", {"date"}, {"title"})
CancelById == Sub("cancel_event", {"event_identifier"}, {})
UpdateById == Sub("update_event", {"event_identifier", "title"}, {})
PrepareById == Sub("prepare_event", {"event_identifier"}, {})
FollowupById == Sub("followup_event", {"event_identifier", "followupDays"}, {})
FollowupZeroDays == Sub("followup_event", {"event_identifier"}, {"followupDays"})
ListEvents == Sub("list_events", {"userMessage"}, {})
HelpRequest == Sub("help_request", {}, {})
GeneralChat == Sub("general_chat", {}, {})
\* the intent names of the multi-intent prompt's own examples are outside INTENTS
DuplicateEvent == Sub("duplicate_event", {}, {})
CreateNoFields == IntentObj("create_event", FALSE, 0, NoFieldMap)
ListNoFields == IntentObj("list_events", FALSE, 0, NoFieldMap)

\* a well-formed single-intent completion: { intent, confidence, fields }
Single(x, confidence) ==
    NluObj("absent", <<>>, x.intent, TRUE, confidence, x.fields)
\* a multi-intent completion: { multipleIntents: [...] }
Multi(elems) == NluObj("array", elems, "", FALSE, 0, NoFieldMap)

ListsOf(pool, lo, hi) == UNION {[1..k -> pool] : k \in lo..hi}

\* the matcher's answers over a candidate set: unparseable, ill-typed, no match,
\* a match without event, a match on a candidate, a match on an id never sent
MatchPool(candidates) ==
    {MatchGarbage("none"), MatchGarbage("bad"), MatchObj(FALSE, TRUE, 0, 90),
     MatchObj(TRUE, FALSE, 0, 0), MatchObj(TRUE, TRUE, 0, 90)}
    \cup {MatchObj(TRUE, TRUE, e, 90) : e \in candidates \cup {99}}

\* Spec: two concurrent messages
ConcDetectPool == {Multi(l) : l \in ListsOf({CreateFull, CreateTitleOnly}, 2, 2)}
ConcExtractPool == {Single(CreateFull, 90), Single(CancelById, 90), Single(CancelById, 40)}
ConcMatchPool == {MatchObj(TRUE, FALSE, 0, 0), MatchObj(TRUE, TRUE, 1, 90)}

\* SpecPipeline: the sub-intents of a compound message, the detection answers
\* and the extraction answers
SubPool ==
    {CreateFull, CreateTitleOnly, CancelById, UpdateById,
     DuplicateEvent, CreateNoFields, ListNoFields, GeneralChat, NullIntent}
DetectPool ==
    {NluGarbage("none"), Single(CreateFull, 90)}
    \cup {Multi(l) : l \in ListsOf(SubPool, 0, MaxIntents)}
ExtractPool ==
    {NluGarbage("bad"), Multi(<<>>)}
    \cup {Single(x, c) :
            x \in {CreateFull, CreateTitleOnly, CreateEmptyTitle, CancelById, UpdateById,
                   PrepareById, FollowupById, FollowupZeroDays, ListEvents, HelpRequest,
                   GeneralChat, DuplicateEvent},
            c \in {90}}
    \cup {Single(CancelById, 40)}

\* the compound messages of the liveness check: a step that succeeds, one that
\* asks for clarification, one that resolves an event, one that throws, and
\* the null element
LiveSubPool == {CreateFull, CreateTitleOnly, CancelById, DuplicateEvent, NullIntent}
LiveDetectPool ==
    {NluGarbage("none")} \cup {Multi(l) : l \in ListsOf(LiveSubPool, 0, MaxIntents)}

\* SpecAdapter: single-intent completions around the confidence threshold
Confidences ==
    {-20, 0, 100, 150}
    \cup ((CONFIDENCE_THRESHOLD - ConfSpread)..(CONFIDENCE_THRESHOLD + ConfSpread))
NluTexts ==
    {NluGarbage("none"), NluGarbage("bad")}
    \cup {NluObj(multi, <<>>, intent, isNumber, c, fields) :
            multi \in {"absent", "notarray", "array"},
            intent \in {"", "create_event", "cancel_event", "general_chat", "duplicate_event"},
            isNumber \in BOOLEAN,
            c \in Confidences,
            fields \in {NoFieldMap, FieldMap({}, {}), FieldMap({"event_identifier"}, {})}}

\* SpecSweep, SpecDialogue, SpecRoundTrip: extraction answers; the message
\* texts of SpecDialogue and SpecContext
SweepExtractPool == {Single(GeneralChat, 90), Single(CreateTitleOnly, 90)}
DialogueTexts == {OtherText, EmailText}
DialogueExtractPool == {Single(UpdateById, 90), Single(GeneralChat, 90)}
TripExtractPool == {Single(CreateFull, 90), Single(CancelById, 90), Single(ListEvents, 90)}
ContextTexts ==
    {OtherText, EmailText, MessageText(TRUE, FALSE, FALSE, FALSE),
     MessageText(FALSE, FALSE, TRUE, FALSE), MessageText(FALSE, FALSE, FALSE, TRUE)}

\* SpecFrame: a compound message that stores a PendingIntent and then waits
\* on the calendar; extractions that ask for clarification or create an event
FrameCompound == Multi(<<CreateTitleOnly, CreateFull>>)
FrameExtractPool == {Single(CreateTitleOnly, 90), Single(CreateFull, 90)}

\* SpecPending: a compound message whose first sub-intent lacks its title, and
\* extractions that ask for a clarification, create an event or only chat
PendingCompound == Multi(<<CreateEmptyTitle, CreateFull>>)
PendingExtractPool ==
    {Single(CreateTitleOnly, 90), Single(CreateFull, 90), Single(GeneralChat, 90)}

(***************************************************************************)
(* CalendarService.updateEvent and mergeEventData (the calendar service).  *)
(*   Instants are counted in ticks, SubMinute ticks to the minute, so that *)
(*   an event may start or end between two whole minutes.                  *)
(*   A string field of an event is "" when the event does not carry it.    *)
(*   An attendee entry is the sequence of its pieces: a run of ordinary    *)
(*   characters (a word), "@", "." or " ".                                 *)
(***************************************************************************)
SubMinute == 2      \* instants told apart within one minute
MaxTicks == 5       \* longest timed event held by the calendar, in ticks

MinutesPerDay == 24 * 60

\* start / end of an event: { dateTime, timeZone } or, for an all-day event, { date }
EventTime(kind, at, timeZone) == [kind |-> kind, at |-> at, timeZone |-> timeZone]

\* event.description; `names` are display names appended to it
Description(text, names) == [text |-> text, names |-> names]
NoDescription == Description("", <<>>)

\* !description is false
HasDescription(d) == d.text # "" \/ d.names # <<>>

\* /^[^\s@]+@[^\s@]+\.[^\s@]+$/.test(email)
isValidEmail(email) ==
    \E i \in 1..Len(email), j \in 1..Len(email) :
        /\ 1 < i /\ i + 1 < j /\ j < Len(email)
        /\ email[i] = "@"
        /\ email[j] = "."
        /\ \A k \in (1..Len(email)) \ {i} : email[k] \notin {"@", " "}

\* name && name.trim()
NotBlank(name) == \E k \in 1..Len(name) : name[k] # " "

RECURSIVE FilterValidEmails(_)
\* updateData.attendees.filter(email => this.isValidEmail(email))
FilterValidEmails(list) ==
    IF list = <<>> THEN <<>>
    ELSE IF isValidEmail(Head(list)) THEN <<Head(list)>> \o FilterValidEmails(Tail(list))
    ELSE FilterValidEmails(Tail(list))

RECURSIVE FilterNames(_)
\* updateData.attendees.filter(name => name && name.trim())
FilterNames(list) ==
    IF list = <<>> THEN <<>>
    ELSE IF NotBlank(Head(list)) THEN <<Head(list)>> \o FilterNames(Tail(list))
    ELSE FilterNames(Tail(list))

\* an event of the calendar backend
Event(summary, description, location, start, end, attendees) ==
    [summary |-> summary, description |-> description, location |-> location,
     start |-> start, end |-> end, attendees |-> attendees]

\* the update payload: `carries` are the keys holding a truthy value (an array,
\* even an empty one, is truthy)
UpdateData(carries, title, description, location, date, time, end, duration, attendees) ==
    [carries |-> carries, title |-> title, description |-> description,
     location |-> location, date |-> date, time |-> time, end |-> end,
     duration |-> duration, attendees |-> attendees]

\* moment(`${date} ${time}`, "YYYY-MM-DD HH:mm"): a whole minute of the day
MomentOf(date, time) == (date * MinutesPerDay + time) * SubMinute

\* moment(t.dateTime): the instant, or the current instant when dateTime is undefined
MomentOfDateTime(t, now) == IF t.kind = "dateTime" THEN t.at ELSE now

\* a.diff(b, "minutes"): whole minutes, truncated towards zero
DiffMinutes(a, b) ==
    IF a >= b THEN (a - b) \div SubMinute ELSE 0 - ((b - a) \div SubMinute)

UtcTime(at) == EventTime("dateTime", at, "UTC")

\* merged.end when the payload carries date and time
MergedEnd(existingEvent, updateData, now) ==
    LET startDateTime == MomentOf(updateData.date, updateData.time)
    IN  IF "end" \in updateData.carries
        THEN UtcTime(MomentOf(updateData.date, updateData.end))
        ELSE IF "duration" \in updateData.carries
        THEN UtcTime(startDateTime + updateData.duration * SubMinute)
        ELSE LET originalStart == MomentOfDateTime(existingEvent.start, now)
                 originalEnd == MomentOfDateTime(existingEvent.end, now)
                 originalDuration == DiffMinutes(originalEnd, originalStart)
             IN  UtcTime(startDateTime + originalDuration * SubMinute)

\* CalendarService.mergeEventData
mergeEventData(existingEvent, updateData, now) ==
    LET c == updateData.carries
        retimed == "date" \in c /\ "time" \in c
        validAttendees ==
            IF "attendees" \in c THEN FilterValidEmails(updateData.attendees) ELSE <<>>
        attendeeNames ==
            IF "attendees" \in c THEN FilterNames(updateData.attendees) ELSE <<>>
        described ==
            IF "description" \in c THEN Description(updateData.description, <<>>)
            ELSE existingEvent.description
    IN  [summary |-> IF "title" \in c THEN updateData.title ELSE existingEvent.summary,
         description |->
            IF "attendees" \in c /\ validAttendees = <<>> /\ attendeeNames # <<>>
            THEN Description(described.text, described.names \o attendeeNames)
            ELSE described,
         location |->
            IF "location" \in c THEN updateData.location ELSE existingEvent.location,
         start |->
            IF retimed THEN UtcTime(MomentOf(updateData.date, updateData.time))
            ELSE existingEvent.start,
         end |->
            IF retimed THEN MergedEnd(existingEvent, updateData, now)
            ELSE existingEvent.end,
         attendees |->
            IF "attendees" \in c /\ validAttendees # <<>> THEN validAttendees
            ELSE existingEvent.attendees]

\* the locals of one updateEvent call; pc is "idle", "get", "update", "updated" or "failed"
NoEvent ==
    Event("", NoDescription, "", EventTime("none", 0, ""), EventTime("none", 0, ""), <<>>)
NoUpdateData == UpdateData({}, "", "", "", 0, 0, 0, 0, <<>>)
NoMerge ==
    [pc |-> "idle", stored |-> NoEvent, updateData |-> NoUpdateData,
     existingEvent |-> NoEvent, merged |-> NoEvent]

\* the events the calendar backend may hold
Sarah == <<"sarah", "@", "x", ".", "com">>
Bob == <<"bob", "@", "x", ".", "com">>
TimedEvents ==
    { Event("Standup", d, "", EventTime("dateTime", s, "Europe/Paris"),
            EventTime("dateTime", s + n, "Europe/Paris"), a) :
        d \in {NoDescription, Description("Agenda", <<>>)},
        s \in {MomentOf(1, 540), MomentOf(1, 540) + 1},
        n \in 0..MaxTicks,
        a \in {<<>>, <<Bob>>} }
AllDayEvents ==
    { Event("Offsite", NoDescription, "Lyon", EventTime("date", MomentOf(1, 0), ""),
            EventTime("date", MomentOf(2, 0), ""), a) : a \in {<<>>, <<Bob>>} }
StoredEvents == TimedEvents \cup AllDayEvents

\* the payloads executeUpdateEvent and continueEventUpdate may pass
AttendeeLists ==
    {<<>>, <<Sarah>>, <<Sarah, Bob>>, <<<<"Sarah">>>>, <<<<"Sarah">>, Sarah>>, <<<<" ">>>>,
     <<<<"sarah", "@", "x">>>>}
TimeKeys ==
    {{}, {"date"}, {"date", "time"}, {"date", "time", "end"},
     {"date", "time", "duration"}, {"date", "time", "end", "duration"}}
UpdatePayloads ==
    { UpdateData(c \cup t, "Review", "Minutes", "Room 2", 2, 600, 660, 45, <<>>) :
        c \in SUBSET {"title", "description", "location"}, t \in TimeKeys }
    \cup
    { UpdateData(c \cup t \cup {"attendees"}, "Review", "Minutes", "Room 2", 2, 600,
                 660, 45, a) :
        c \in SUBSET {"title", "description", "location"}, t \in TimeKeys,
        a \in AttendeeLists }

(***************************************************************************)
(* CalendarService: the tokens and the OAuth2 client its methods share.    *)
(*   Credentials are named by their owner: a user id, "server" for the     *)
(*   tokens of tokens.json, "none" when nothing was ever set.              *)
(***************************************************************************)
MaxCalls == 2       \* calls of CalendarService methods in one behaviour
CallIds == 1..MaxCalls

\* one call of a CalendarService method: pc is "idle", the request it awaits
\* ("insert", "get", "update"), "returned" or "threw"
IdleCall == [pc |-> "idle", userId |-> "", passed |-> FALSE]

\* keyed: the users whose calendarKeys.accessToken is set; requests: history,
\* every request sent to the calendar API with the credentials it was sent with
NoService ==
    [tokens |-> "server", credentials |-> "server", keyed |-> {},
     calls |-> [c \in CallIds |-> IdleCall], requests |-> <<>>]

\* a request issued through google.calendar({ auth: this.oauth2Client }): it is
\* sent with the credentials the shared client holds when it is issued
Request(c, userId, kind, credentials) ==
    [call |-> c, userId |-> userId, kind |-> kind, with |-> credentials]

\* the head of every CalendarService method (createEvent 607-617, updateEvent
\* 649-659): the credentials of the shared client afterwards, "throw" when the
\* service has neither the user's tokens nor stored ones
CredentialsFor(service, userId, passed) ==
    IF passed /\ userId \in service.keyed THEN userId
    ELSE IF service.tokens = "none" THEN "throw"
    ELSE service.credentials

\* a method is called for user `userId`; `passed` says whether the caller handed
\* over the user object.  The method throws, or issues its first request `kind`.
MethodCall(service, c, userId, passed, kind) ==
    LET cr == CredentialsFor(service, userId, passed)
    IN  IF cr = "throw"
        THEN [service EXCEPT !.calls[c] = [pc |-> "threw", userId |-> userId, passed |-> passed]]
        ELSE [service EXCEPT
                !.credentials = cr,
                !.calls[c] = [pc |-> kind, userId |-> userId, passed |-> passed],
                !.requests = Append(@, Request(c, userId, kind, cr))]

(***************************************************************************)
(* The chat client (hooks/useChat.ts) and the socket handler of app.js.    *)
(*   The socket carries at most one chat_message to the server and one     *)
(*   event back; `serving` is the server's chat_message handler: "idle",   *)
(*   "busy" inside processMessage, or "orphan" when the socket it would    *)
(*   answer on has been closed.  A user id of "" is undefined.             *)
(*   `answered` is history: the server has emitted its answer to the       *)
(*   message the client sent last.                                         *)
(***************************************************************************)
MaxSends == 3       \* messages the user submits in one behaviour

\* the events the server emits, and the JSON body of the webhook
ChatResponse(success) == [type |-> "chat_response", success |-> success]
ErrorEvent(message) == [type |-> "error", success |-> FALSE, message |-> message]

\* useState<ChatState> at line 20, a socket not yet connected, nothing in flight
NoClient ==
    [isLoading |-> FALSE, error |-> "", isConnected |-> FALSE, userId |-> "u1",
     messages |-> <<>>, outbox |-> <<>>, serving |-> "idle", inbox |-> <<>>,
     fetching |-> FALSE, sends |-> 0, answered |-> FALSE]

\* useChat.handleChatResponse
handleChatResponse(c, response) ==
    [c EXCEPT !.isLoading = FALSE,
              !.error = IF response.success THEN "" ELSE "An error occurred",
              !.messages = Append(@, "assistant")]

\* socket.on('error', ...) of the client
handleSocketError(c, event) == [c EXCEPT !.error = event.message]

\* the parts of the system a specification does not exercise stay as constructed
Detached(parts) ==
    /\ "merge" \in parts => merge = NoMerge
    /\ "calendarService" \in parts => calendarService = NoService
    /\ "client" \in parts => client = NoClient
AllParts == {"merge", "calendarService", "client"}

\* The record values every specification shares.  TLC orders the fields of a
\* record on its first comparison; AnswersEvaluated, a conjunct of every initial
\* predicate, has that done before the search starts.
SharedValues ==
    <<NullIntent, NoPending, NoContext, NoSession, GeneralChatFallback, NoText,
      NoResolution, ResolveEmptyCalendar, ResolveError, NoVR, NoData, NoReport,
      NoResult, NoCall, OtherText, EmailText, NoDetection, NoExtraction, NoHandled,
      IdleProc, StaticChat, Apology, MultiApology, CombinedMessage, Clarified,
      CreateFull, CreateTitleOnly, CreateEmptyTitle, CancelById, UpdateById,
      PrepareById, FollowupById, FollowupZeroDays, ListEvents, HelpRequest,
      GeneralChat, DuplicateEvent, CreateNoFields, ListNoFields,
      NoDescription, NoEvent, NoUpdateData, NoMerge, IdleCall, NoService, NoClient>>

AnswersEvaluated ==
    /\ \A k \in DOMAIN SharedValues : SharedValues[k] = SharedValues[k]
    /\ \A t \in ConcDetectPool \cup ConcExtractPool \cup DetectPool \cup ExtractPool
                \cup LiveDetectPool \cup NluTexts \cup SweepExtractPool
                \cup DialogueExtractPool \cup TripExtractPool
                \cup FrameExtractPool \cup {FrameCompound}
                \cup PendingExtractPool \cup {PendingCompound} : t = t
    /\ \A t \in ConcMatchPool : t = t
    /\ \A t \in DialogueTexts \cup ContextTexts : t = t

(***************************************************************************)
(* Spec: messages of the two users processed concurrently, as the socket   *)
(* transport delivers them.                                                *)
(***************************************************************************)
NotParsed == [set |-> FALSE, value |-> GeneralChatFallback]

InitCommon ==
    /\ AnswersEvaluated
    /\ sessions = [u \in Users |-> NoSession]
    /\ appendLog = [u \in Users |-> <<>>]
    /\ callLog = <<>>
    /\ proc = [m \in MsgIds |-> IdleProc]
    /\ arrivals = 0
    /\ nluText = NluGarbage("none")
    /\ parsed = NotParsed
    /\ clock = [now |-> 0, sweeps |-> 0]

Init ==
    /\ InitCommon
    /\ calendar = [events |-> {1}, nextId |-> 2, updated |-> {}]
    /\ Detached(AllParts)

Next ==
    \/ \E m \in MsgIds, u \in Users : Arrive(m, u, "socket", OtherText)
    \/ \E m \in MsgIds : DetectReturn(m, TRUE, NluGarbage("none"))
    \/ \E m \in MsgIds, t \in ConcDetectPool : DetectReturn(m, FALSE, t)
    \/ \E m \in MsgIds : ExtractReturn(m, TRUE, NluGarbage("none"))
    \/ \E m \in MsgIds, t \in ConcExtractPool : ExtractReturn(m, FALSE, t)
    \/ \E m \in MsgIds, ok \in BOOLEAN : SearchReturn(m, ok)
    \/ \E m \in MsgIds, t \in ConcMatchPool : MatchReturn(m, FALSE, t)
    \/ \E m \in MsgIds, ok \in BOOLEAN : CalendarReturn(m, ok)

Spec == Init /\ [][Next]_vars

(***************************************************************************)
(* SpecPipeline: one message taken through the whole pipeline, with every  *)
(* shape of collaborator answer.                                           *)
(***************************************************************************)
InitPipeline ==
    /\ InitCommon
    /\ Detached(AllParts)
    /\ calendar \in {[events |-> {}, nextId |-> 3, updated |-> {}],
                     [events |-> {1, 2}, nextId |-> 3, updated |-> {}]}

NextPipeline ==
    \/ \E u \in Users, tr \in {"socket", "webhook_auth"} : Arrive(1, u, tr, OtherText)
    \/ \E m \in MsgIds : DetectReturn(m, TRUE, NluGarbage("none"))
    \/ \E m \in MsgIds, t \in DetectPool : DetectReturn(m, FALSE, t)
    \/ \E m \in MsgIds : ExtractReturn(m, TRUE, NluGarbage("none"))
    \/ \E m \in MsgIds, t \in ExtractPool : ExtractReturn(m, FALSE, t)
    \/ \E m \in MsgIds, ok \in BOOLEAN : SearchReturn(m, ok)
    \/ \E m \in MsgIds : MatchReturn(m, TRUE, MatchGarbage("none"))
    \/ \E m \in MsgIds : \E t \in MatchPool(proc[m].events) : MatchReturn(m, FALSE, t)
    \/ \E m \in MsgIds, ok \in BOOLEAN : CalendarReturn(m, ok)
    \/ \E m \in MsgIds, ok \in BOOLEAN : NluTextReturn(m, ok)

SpecPipeline == InitPipeline /\ [][NextPipeline]_vars

\* the positions at which processMessage is suspended on a collaborator call
AwaitingPcs == {"detect", "extract", "search", "match", "cal", "nlu"}

\* every collaborator call that has been issued eventually returns or fails: no
\* message stays suspended on one for ever
CallsSettle == \A m \in MsgIds : []<>(proc[m].pc \notin AwaitingPcs)

NextPipelineLive ==
    \/ \E u \in Users, tr \in {"socket", "webhook_auth"} : Arrive(1, u, tr, OtherText)
    \/ \E m \in MsgIds : DetectReturn(m, TRUE, NluGarbage("none"))
    \/ \E m \in MsgIds, t \in LiveDetectPool : DetectReturn(m, FALSE, t)
    \/ \E m \in MsgIds : ExtractReturn(m, TRUE, NluGarbage("none"))
    \/ \E m \in MsgIds, t \in ExtractPool : ExtractReturn(m, FALSE, t)
    \/ \E m \in MsgIds, ok \in BOOLEAN : SearchReturn(m, ok)
    \/ \E m \in MsgIds : MatchReturn(m, TRUE, MatchGarbage("none"))
    \/ \E m \in MsgIds : \E t \in MatchPool(proc[m].events) : MatchReturn(m, FALSE, t)
    \/ \E m \in MsgIds, ok \in BOOLEAN : CalendarReturn(m, ok)
    \/ \E m \in MsgIds, ok \in BOOLEAN : NluTextReturn(m, ok)

SpecPipelineLive == InitPipeline /\ [][NextPipelineLive]_vars /\ CallsSettle

(***************************************************************************)
(* SpecHistory: the session store under direct updateUserSession calls.    *)
(***************************************************************************)
SessionAppend(u) ==
    /\ Len(appendLog[u]) < 2 * MaxAppends
    /\ LET n == Len(appendLog[u]) \div 2 + 1
       IN  /\ sessions' = updateUserSession(sessions, u, n, n)
           /\ appendLog' = LogAppend(appendLog, u, n, n)
    /\ UNCHANGED <<calendar, callLog, proc, arrivals, nluText, merge, calendarService, client, parsed, clock>>

NextHistory == \E u \in Users : SessionAppend(u)

SpecHistory == Init /\ [][NextHistory]_vars

(***************************************************************************)
(* SpecAdapter: parseIntentResponse applied to one NLU completion.         *)
(***************************************************************************)

InitAdapter ==
    /\ AnswersEvaluated
    /\ sessions = [u \in Users |-> NoSession]
    /\ appendLog = [u \in Users |-> <<>>]
    /\ callLog = <<>>
    /\ proc = [m \in MsgIds |-> IdleProc]
    /\ arrivals = 0
    /\ parsed = NotParsed
    /\ clock = [now |-> 0, sweeps |-> 0]
    /\ calendar = [events |-> {1}, nextId |-> 2, updated |-> {}]
    /\ nluText \in NluTexts
    /\ Detached(AllParts)

ParseIntent ==
    /\ ~parsed.set
    /\ parsed' = [set |-> TRUE, value |-> parseIntentResponse(nluText)]
    /\ UNCHANGED <<sessions, appendLog, calendar, callLog, proc, arrivals, nluText, merge, calendarService, client, clock>>

SpecAdapter == InitAdapter /\ [][ParseIntent]_vars

(***************************************************************************)
(* SpecSweep: messages processed while time passes and the hourly sweep of *)
(* app.js (setInterval) runs.                                              *)
(***************************************************************************)
\* time passes
Tick(d) ==
    /\ clock.now + d <= MaxClock
    /\ clock' = [clock EXCEPT !.now = @ + d]
    /\ UNCHANGED <<sessions, appendLog, calendar, callLog, proc, arrivals, nluText, merge, calendarService, client, parsed>>

\* the interval timer fires: intentProcessor.cleanupOldSessions()
Sweep ==
    /\ clock.sweeps < MaxSweeps
    /\ sessions' = cleanupOldSessions(sessions)
    /\ clock' = [clock EXCEPT !.sweeps = @ + 1]
    /\ UNCHANGED <<appendLog, calendar, callLog, proc, arrivals, nluText, merge, calendarService, client, parsed>>

NextSweep ==
    \/ \E d \in {12, 13} : Tick(d)
    \/ Sweep
    \/ \E m \in MsgIds, u \in Users : Arrive(m, u, "webhook_auth", OtherText)
    \/ \E m \in MsgIds : DetectReturn(m, TRUE, NluGarbage("none"))
    \/ \E m \in MsgIds, t \in SweepExtractPool : ExtractReturn(m, FALSE, t)

SpecSweep == Init /\ [][NextSweep]_vars

(***************************************************************************)
(* SpecDialogue: one user at a time waits for the answer before sending    *)
(* the next message (the dialogue of the context-continuation scenario).   *)
(***************************************************************************)

\* the transport delivers message m once every earlier message has been answered
ArriveNext(m, u, text) ==
    /\ \A k \in MsgIds : k < m => proc[k].pc = "done"
    /\ Arrive(m, u, "webhook_auth", text)

NextDialogue ==
    \/ \E m \in MsgIds, u \in Users, text \in DialogueTexts : ArriveNext(m, u, text)
    \/ \E m \in MsgIds : DetectReturn(m, TRUE, NluGarbage("none"))
    \/ \E m \in MsgIds, t \in DialogueExtractPool : ExtractReturn(m, FALSE, t)
    \/ \E m \in MsgIds, ok \in BOOLEAN : SearchReturn(m, ok)
    \/ \E m \in MsgIds, t \in ConcMatchPool : MatchReturn(m, FALSE, t)
    \/ \E m \in MsgIds, ok \in BOOLEAN : CalendarReturn(m, ok)

SpecDialogue == Init /\ [][NextDialogue]_vars

(***************************************************************************)
(* SpecFrame: messages of the two users processed concurrently, each       *)
(* writing to its user's session: session creation, PendingIntent, the     *)
(* history append of processMessage and that of the socket transport.      *)
(***************************************************************************)
NextFrame ==
    \/ \E m \in MsgIds, u \in Users : Arrive(m, u, "socket", OtherText)
    \/ \E m \in MsgIds : DetectReturn(m, TRUE, NluGarbage("none"))
    \/ \E m \in MsgIds : DetectReturn(m, FALSE, FrameCompound)
    \/ \E m \in MsgIds, t \in FrameExtractPool : ExtractReturn(m, FALSE, t)
    \/ \E m \in MsgIds, ok \in BOOLEAN : CalendarReturn(m, ok)

SpecFrame == Init /\ [][NextFrame]_vars

(***************************************************************************)
(* SpecRoundTrip: one user creates, cancels and lists events, waiting for  *)
(* every answer before sending the next message.                           *)
(***************************************************************************)
TripIds == 1..TripMsgs

InitRoundTrip ==
    /\ AnswersEvaluated
    /\ sessions = [u \in Users |-> NoSession]
    /\ appendLog = [u \in Users |-> <<>>]
    /\ callLog = <<>>
    /\ proc = [m \in TripIds |-> IdleProc]
    /\ arrivals = 0
    /\ nluText = NluGarbage("none")
    /\ parsed = NotParsed
    /\ clock = [now |-> 0, sweeps |-> 0]
    /\ calendar = [events |-> {1}, nextId |-> 2, updated |-> {}]
    /\ Detached(AllParts)

\* the matcher's answers of MatchPool, and a match on a candidate that the
\* matcher itself rates at confidence 0.1
TripMatchPool(candidates) ==
    MatchPool(candidates) \cup {MatchObj(TRUE, TRUE, e, 10) : e \in candidates}

ArriveTrip(m) ==
    /\ \A k \in TripIds : k < m => proc[k].pc = "done"
    /\ Arrive(m, "u1", "webhook_auth", OtherText)

NextRoundTrip ==
    \/ \E m \in TripIds : ArriveTrip(m)
    \/ \E m \in TripIds : DetectReturn(m, TRUE, NluGarbage("none"))
    \/ \E m \in TripIds, t \in TripExtractPool : ExtractReturn(m, FALSE, t)
    \/ \E m \in TripIds, ok \in BOOLEAN : SearchReturn(m, ok)
    \/ \E m \in TripIds : \E t \in TripMatchPool(proc[m].events) : MatchReturn(m, FALSE, t)
    \/ \E m \in TripIds, ok \in BOOLEAN : CalendarReturn(m, ok)
    \/ \E m \in TripIds, ok \in BOOLEAN : NluTextReturn(m, ok)

SpecRoundTrip == InitRoundTrip /\ [][NextRoundTrip]_vars

(***************************************************************************)
(* SpecContext: the conversation-context methods called directly.          *)
(***************************************************************************)

NextContext ==
    \/ \E u \in Users, intent \in {"update_event", "cancel_event"}, e \in {0, 1, 2} :
            ContextUpdate(u, intent, e)
    \/ \E m \in MsgIds, u \in Users, text \in ContextTexts : ContextMessage(m, u, text)
    \/ \E m \in MsgIds, ok \in BOOLEAN : continueEventUpdate(m, ok)

SpecContext == Init /\ [][NextContext]_vars

(***************************************************************************)
(* Properties.                                                             *)
(***************************************************************************)
History(u) == sessions[u].conversationHistory

Done(m) == proc[m].pc = "done"

\* C1: for one user, processMessage executions are mutually exclusive: a message
\* that arrived later runs no pipeline step (its multi-intent detection included)
\* before every earlier message of the same user has returned its result.
C1_MutualExclusionPerUser ==
    \A m1 \in MsgIds, m2 \in MsgIds :
        (m1 < m2 /\ proc[m2].pc # "idle" /\ proc[m1].user = proc[m2].user)
            => Done(m1)

\* C2: in a user's conversation history the turns of a message that arrived
\* earlier precede the turns of every message that arrived later (message ids
\* are arrival numbers, and a turn's content is the id of its message).
C2_HistoryInArrivalOrder ==
    \A u \in Users :
        \A j \in 1..Len(History(u)), k \in 1..Len(History(u)) :
            j < k => History(u)[j].content <= History(u)[k].content

\* C3: a history never holds more than 20 turns, and what it holds is the 20
\* most recent turns ever appended (all of them while there are at most 20),
\* in the order they were appended.
C3_HistoryKeepsNewest20 ==
    \A u \in Users :
        LET h == History(u)
            a == appendLog[u]
        IN  /\ Len(h) <= HistoryCap
            /\ Len(h) = IF Len(a) <= HistoryCap THEN Len(a) ELSE HistoryCap
            /\ \A k \in 1..Len(h) : h[k] = a[Len(a) - Len(h) + k]

\* a history that has had to evict: 22 turns appended, the first pair gone
C3_Witness ==
    \E u \in Users :
        /\ Len(appendLog[u]) = HistoryCap + 2
        /\ Len(History(u)) = HistoryCap
        /\ History(u)[1] = appendLog[u][3]

\* { intent, confidence, fields } with a non-empty intent, a numeric confidence, a
\* fields object, and no multipleIntents array beside them
WellFormedSingle(t) ==
    /\ t.json = "obj"
    /\ t.multi # "array"
    /\ t.intent # ""
    /\ t.confIsNumber
    /\ t.fields.kind = "map"

Clamped(c) == IF c < 0 THEN 0 ELSE IF c > 100 THEN 100 ELSE c

\* C4: a well-formed single-intent completion whose clamped confidence is below
\* 0.7 is returned as general_chat, confidence 0.5, no fields; one at or above
\* 0.7 keeps its intent and fields (with the clamped confidence).
C4_LowConfidenceDowngraded ==
    (parsed.set /\ WellFormedSingle(nluText)) =>
        IF Clamped(nluText.confidence) < CONFIDENCE_THRESHOLD
        THEN /\ parsed.value.intent = "general_chat"
             /\ parsed.value.confidence = 50
             /\ parsed.value.fields = FieldMap({}, {})
        ELSE /\ parsed.value.intent = nluText.intent
             /\ parsed.value.fields = nluText.fields
             /\ parsed.value.confidence = Clamped(nluText.confidence)

\* cancel_event extracted with confidence 0.69, downgraded
C4_Witness ==
    /\ parsed.set
    /\ WellFormedSingle(nluText)
    /\ nluText.intent = "cancel_event"
    /\ nluText.confidence = CONFIDENCE_THRESHOLD - 1
    /\ parsed.value.intent = "general_chat"

\* the matcher claimed a match on an id that was not among the candidates sent
NamesUnknownEvent(p) ==
    /\ p.matchText.json = "obj"
    /\ p.matchText.valid
    /\ p.matchText.success
    /\ p.matchText.eventId # 0
    /\ p.matchText.eventId \notin p.events

\* C5: when the matcher names an event id outside the fetched candidate set, the
\* resolution has status not_found and no event, and no calendar request is
\* issued on that id.
C5_UnknownIdIsNotFound ==
    \A m \in MsgIds :
        (proc[m].resolution.set /\ NamesUnknownEvent(proc[m])) =>
            /\ ResolutionStatus(proc[m].resolution) = "not_found"
            /\ proc[m].resolution.event = 0
            /\ \A k \in 1..Len(callLog) : callLog[k].id # proc[m].matchText.eventId

\* C6: a compound message attempts each of its N sub-intents once, in the order
\* extracted, whatever the earlier steps did: when it is done there is one step
\* result per sub-intent, the i-th for the i-th sub-intent.
C6_EverySubIntentAttemptedInOrder ==
    \A m \in MsgIds :
        (Done(m) /\ proc[m].multi) =>
            /\ Len(proc[m].results) = Len(proc[m].intents)
            /\ \A k \in 1..Len(proc[m].results) :
                    proc[m].results[k].intent = proc[m].intents[k].intent

\* C7: the result of a compound message of N sub-intents carries the aggregate
\* report, with totalIntents = N, N step results, and successfulIntents the
\* number of step results with success = true.
C7_ReportCounts ==
    \A m \in MsgIds :
        (Done(m) /\ proc[m].multi) =>
            LET r == proc[m].result.report
            IN  /\ r.set
                /\ r.totalIntents = Len(proc[m].intents)
                /\ Len(r.results) = Len(proc[m].intents)
                /\ r.successfulIntents =
                        Cardinality({k \in 1..Len(r.results) : r.results[k].success})

\* the sub-intent has a field map and lacks a required field
HasMissingField(x) ==
    /\ x.kind = "obj"
    /\ x.fields.kind = "map"
    /\ \E f \in Range(REQUIRED_FIELDS(x.intent)) : f \notin x.fields.truthy

\* C8: the success flag returned for a compound message is the conjunction of
\* the step successes: true iff each of the N sub-intents has a step result with
\* success = true; a step that ended in a missing-field clarification has
\* success = false.
C8_OverallSuccessIsConjunction ==
    \A m \in MsgIds :
        (Done(m) /\ proc[m].multi) =>
            /\ proc[m].result.success <=>
                    /\ Len(proc[m].results) = Len(proc[m].intents)
                    /\ \A k \in 1..Len(proc[m].results) : proc[m].results[k].success
            /\ \A k \in 1..Len(proc[m].results) :
                    HasMissingField(proc[m].intents[k]) => ~proc[m].results[k].success

\* a created event followed by a clarification: overall failure
C8_Witness ==
    \E m \in MsgIds :
        /\ Done(m) /\ proc[m].multi
        /\ Len(proc[m].results) = 2
        /\ proc[m].results[1].success
        /\ HasMissingField(proc[m].intents[2])
        /\ ~proc[m].result.success

\* the calendar requests the action of an intent (its event resolution included)
\* is entitled to
RequestsOf(intent) ==
    CASE intent = "create_event"   -> {"insert"}
      [] intent = "update_event"   -> {"list", "get", "update"}
      [] intent = "cancel_event"   -> {"list", "delete"}
      [] intent = "prepare_event"  -> {"list", "get"}
      [] intent = "followup_event" -> {"list", "get", "insert"}
      [] intent = "list_events"    -> {"list"}
      [] OTHER                     -> {}

Mutating(req) == req \in {"insert", "update", "delete"}

\* C9: no compensating calendar call.  Every calendar request is one that the
\* sub-intent of its own step is entitled to, a step issues at most one mutating
\* request, and in a compound message the effect of a successful step stays in
\* the calendar while later steps fail: a created event is still held unless a
\* later successful cancel_event step of the message removed it, an updated event
\* stays updated, a cancelled event stays removed.
C9_NoCompensatingCalls ==
    /\ \A k \in 1..Len(callLog) :
            callLog[k].req \in RequestsOf(proc[callLog[k].msg].intents[callLog[k].step].intent)
    /\ \A j \in 1..Len(callLog), k \in 1..Len(callLog) :
            (j < k /\ callLog[j].msg = callLog[k].msg /\ callLog[j].step = callLog[k].step)
                => ~(Mutating(callLog[j].req) /\ Mutating(callLog[k].req))
    /\ \A m \in MsgIds : proc[m].multi =>
            \A k \in 1..Len(proc[m].results) :
                LET r == proc[m].results[k]
                IN  r.success =>
                    /\ r.data.action \in {"create_event", "followup_event"} =>
                            \/ r.data.event \in calendar.events
                            \/ \E j \in (k + 1)..Len(proc[m].results) :
                                    /\ proc[m].results[j].success
                                    /\ proc[m].results[j].data.action = "cancel_event"
                                    /\ proc[m].results[j].data.event = r.data.event
                    /\ r.data.action = "update_event" => r.data.event \in calendar.updated
                    /\ r.data.action = "cancel_event" => r.data.event \notin calendar.events

\* step 1 created an event, step 2 failed, the event is still in the calendar
C9_Witness ==
    \E m \in MsgIds :
        /\ Done(m) /\ proc[m].multi
        /\ Len(proc[m].results) = 2
        /\ proc[m].results[1].success
        /\ proc[m].results[1].data.action = "create_event"
        /\ ~proc[m].results[2].success
        /\ proc[m].results[1].data.event \in calendar.events

\* the position of field f in the registry entry of an intent
RegistryIndex(intent, f) ==
    CHOOSE k \in 1..Len(REQUIRED_FIELDS(intent)) : REQUIRED_FIELDS(intent)[k] = f

\* l lists exactly the required fields of x that its field map lacks, in
\* registry order
ListsMissingFields(x, l) ==
    /\ \A f \in FieldNames :
            f \in Range(l) <=>
                (f \in Range(REQUIRED_FIELDS(x.intent)) /\ f \notin x.fields.truthy)
    /\ \A a \in 1..Len(l), b \in 1..Len(l) :
            a < b => RegistryIndex(x.intent, l[a]) < RegistryIndex(x.intent, l[b])

\* the clarification names every required field that x lacks, and the action
\* it blocks
NamesEveryMissingField(text, x) ==
    /\ \A f \in Range(REQUIRED_FIELDS(x.intent)) :
            f \notin x.fields.truthy => fieldNames(f) \in Range(text.names)
    /\ text.action = getIntentAction(x.intent)
    /\ ~text.raw

\* the steps of message m that have been validated and lacked a required field
ClarifiedSteps(m) ==
    {k \in 1..Len(proc[m].intents) :
        /\ HasMissingField(proc[m].intents[k])
        /\ IF proc[m].multi THEN k <= Len(proc[m].results) ELSE Done(m)}

\* the text with which step k of message m was answered
StepMessage(m, k) ==
    IF proc[m].multi THEN proc[m].results[k].message ELSE proc[m].result.response

\* C10: an intent that lacks a required field is answered with a clarification
\* that names every missing field, leaves requires-action false, stores on the
\* user's session a PendingIntent whose missingFields are exactly the missing
\* required fields in registry order, and issues no calendar request.
C10_MissingFieldsClarified ==
    \A m \in MsgIds :
        /\ \A k \in ClarifiedSteps(m) :
                LET x == proc[m].intents[k]
                IN  /\ NamesEveryMissingField(StepMessage(m, k), x)
                    /\ \A c \in 1..Len(callLog) :
                            ~(callLog[c].msg = m /\ callLog[c].step = k)
        /\ (proc[m].vr.set /\ proc[m].vr.missingFields # <<>>) =>
                /\ ~proc[m].vr.requiresAction
                /\ proc[m].vr.needsClarification
        /\ ClarifiedSteps(m) # {} =>
                LET k == CHOOSE j \in ClarifiedSteps(m) :
                            \A j2 \in ClarifiedSteps(m) : j2 <= j
                    x == proc[m].intents[k]
                    pending == sessions[proc[m].user].pendingIntent
                IN  /\ pending.set
                    /\ pending.intent = x.intent
                    /\ pending.fields = x.fields
                    /\ ListsMissingFields(x, pending.missingFields)

\* create_event with only a title: "date" and "time" asked for and pending
C10_Witness ==
    \E m \in MsgIds :
        /\ Done(m) /\ ~proc[m].multi
        /\ Len(proc[m].intents) = 1
        /\ proc[m].intents[1].intent = "create_event"
        /\ proc[m].intents[1].fields = FieldMap({"title"}, {})
        /\ sessions[proc[m].user].pendingIntent.missingFields = <<"date", "time">>
        /\ proc[m].result.response.names = <<"date", "time">>
        /\ ~proc[m].vr.requiresAction
        /\ callLog = <<>>

(***************************************************************************)
(* Conversation context (C11 - C13)                                        *)
(***************************************************************************)
\* the single-intent message m was answered after its update_event action succeeded
UpdatedEvent(m) ==
    /\ proc[m].pc = "done"
    /\ ~proc[m].multi
    /\ proc[m].result.success
    /\ proc[m].result.data.action = "update_event"

\* C11: once processMessage has completed a successful update_event of user U on
\* event e, U's session holds an active context of type event_update for e.
C11_UpdateSetsActiveContext ==
    \A m \in MsgIds :
        UpdatedEvent(m) =>
            sessions[proc[m].user].context =
                [active |-> TRUE, type |-> "event_update",
                 eventId |-> proc[m].result.data.event]

\* C12: the message that follows a successful update_event of the same user and
\* carries an e-mail address is applied as a patch to the same event: it runs
\* neither multi-intent detection, intent extraction nor event resolution, and
\* every calendar request it makes is an update of that event.
C12_ContinuationSkipsExtraction ==
    \A m \in MsgIds : \A n \in MsgIds :
        (/\ n = m + 1
         /\ UpdatedEvent(m)
         /\ proc[n].pc # "idle"
         /\ proc[n].user = proc[m].user
         /\ proc[n].text.address)
        => /\ proc[n].pc \notin {"detect", "extract", "search", "match"}
           /\ ~proc[n].extraction.set
           /\ \A k \in 1..Len(callLog) :
                callLog[k].msg = n =>
                    /\ callLog[k].req = "update"
                    /\ callLog[k].id = proc[m].result.data.event

\* the text matches one of the e-mail / location / description heuristics
MatchesHeuristics(text) == text.address \/ text.location \/ text.description

\* C13: a message that matches none of the heuristics, handled while the
\* user's context is active, leaves the context cleared.
C13_OtherMessageClearsContext ==
    [][\A m \in MsgIds :
        (/\ proc[m].pc = "idle"
         /\ proc'[m].pc # "idle"
         /\ sessions[proc'[m].user].context.active
         /\ ~MatchesHeuristics(proc'[m].text))
        => ~sessions'[proc'[m].user].context.active]_vars

(***************************************************************************)
(* Session sweep (C14, C15)                                                *)
(***************************************************************************)
\* hours since the last activity of u's session
IdleHours(u) == clock.now - sessions[u].lastActivity

\* C14: a run of the sweep removes every session idle for more than 24 hours
\* and leaves every session idle for less than 24 hours in the store with its
\* history, pending intent and last-activity unchanged.
C14_SweepRemovesOnlyOldSessions ==
    [][clock'.sweeps # clock.sweeps =>
        \A u \in Users :
            /\ (sessions[u].exists /\ IdleHours(u) > 24) => ~sessions'[u].exists
            /\ (sessions[u].exists /\ IdleHours(u) < 24) => sessions'[u] = sessions[u]]_vars

\* a sweep has removed the session of one user and kept the younger session,
\* with its history, of another
C14_Witness ==
    /\ clock.sweeps > 0
    /\ \E u \in Users : \E v \in Users :
        /\ ~sessions[u].exists
        /\ sessions[u].created > 0
        /\ sessions[v].exists
        /\ IdleHours(v) < 24
        /\ sessions[v].conversationHistory # <<>>

\* C15: the session object that receives the history append of a message is
\* the one processMessage read when the message arrived: no sweep has removed
\* it while the message was in flight.
C15_SweepSparesInFlightSessions ==
    \A m \in MsgIds :
        (proc[m].pc = "done" /\ proc[m].result.success) =>
            proc[m].sessionWritten = proc[m].sessionRead

(***************************************************************************)
(* Failures of the collaborators (C16 - C20)                               *)
(***************************************************************************)
\* the extraction response holds no JSON object, unparseable JSON, or an object
\* without an intent, a numeric confidence or a fields map
Malformed(t) ==
    \/ t.json # "obj"
    \/ t.intent = ""
    \/ ~t.confIsNumber
    \/ t.fields.kind = "absent"

\* the message was answered as general chat
AnsweredAsChat(m) ==
    /\ proc[m].result.set
    /\ proc[m].result.success
    /\ proc[m].result.intent = "general_chat"
    /\ proc[m].result.response = StaticChat.message

\* C16: a message whose extraction response is malformed is answered as
\* general chat, not with an error.
C16_MalformedExtractionIsGeneralChat ==
    \A m \in MsgIds :
        (/\ proc[m].pc = "done"
         /\ proc[m].extraction.set
         /\ ~proc[m].extraction.threw
         /\ Malformed(proc[m].extraction.text))
        => AnsweredAsChat(m)

\* C17: a message whose extraction call threw is answered as general chat with
\* success = true, not with a failure result.
C17_ExtractionFailureIsGeneralChat ==
    \A m \in MsgIds :
        (/\ proc[m].pc = "done"
         /\ proc[m].extraction.set
         /\ proc[m].extraction.threw)
        => AnsweredAsChat(m)

\* C18 as stated: a handler whose calendar or NLU call failed returned an
\* ActionResult with success = false and an error message.
C18_HandlerFailureIsFailedResult ==
    \A m \in MsgIds :
        (proc[m].handled.set /\ proc[m].handled.failed # "none") =>
            /\ ~proc[m].handled.ar.success
            /\ proc[m].handled.ar.error # NoText

\* C18 amended: a handler whose calendar or NLU call failed returned an
\* ActionResult with success = false and an error message, except that
\* prepare_event, when only its notes call failed, returned success = true with
\* the event and the static "unable to generate notes" text.
C18_HandlerFailureExceptNotes ==
    \A m \in MsgIds :
        (proc[m].handled.set /\ proc[m].handled.failed # "none") =>
            IF proc[m].handled.handler = "prepare" /\ proc[m].handled.failed = "nlu"
            THEN /\ proc[m].handled.ar.success
                 /\ proc[m].handled.ar.data.event = proc[m].call.id
                 /\ proc[m].handled.ar.data.notes =
                        Text("Unable to generate notes at this time.")
            ELSE /\ ~proc[m].handled.ar.success
                 /\ proc[m].handled.ar.error # NoText

\* a calendar call of the cancel handler failed and the handler has returned
C18_Witness ==
    \E m \in MsgIds :
        /\ proc[m].handled.set
        /\ proc[m].handled.handler = "cancel"
        /\ proc[m].handled.failed = "calendar"
        /\ ~proc[m].handled.ar.success

C20_NoRawErrorReachesUser ==
    \A m \in MsgIds :
        (proc[m].pc = "done" /\ proc[m].result.set) =>
            /\ ~proc[m].result.response.raw
            /\ ~proc[m].result.error.raw
            /\ \A k \in 1..Len(proc[m].result.report.results) :
                    ~proc[m].result.report.results[k].message.raw
(***************************************************************************)
(* C21: after create_event succeeded for an event e and a later            *)
(* cancel_event, whose identifier the matcher resolved to e, succeeded, e  *)
(* is no longer in the calendar, a later list_events returns a list        *)
(* without e, and the cancellation changed no other event.                 *)
(***************************************************************************)
\* the event the handler `action` of message m returned with success, else 0
ActedOn(m, action) ==
    IF /\ proc[m].pc = "done"
       /\ proc[m].handled.set
       /\ proc[m].handled.ar.success
       /\ proc[m].handled.ar.data.action = action
    THEN proc[m].handled.ar.data.event
    ELSE 0

Listed(m) ==
    /\ proc[m].pc = "done"
    /\ proc[m].handled.set
    /\ proc[m].handled.handler = "list"
    /\ proc[m].handled.ar.success

CancelledIsGone ==
    \A a, b \in TripIds :
        (a < b /\ ActedOn(a, "create_event") # 0
               /\ ActedOn(b, "cancel_event") = ActedOn(a, "create_event")) =>
            /\ ActedOn(a, "create_event") \notin calendar.events
            /\ \A c \in TripIds :
                    (c > b /\ Listed(c)) =>
                        ActedOn(a, "create_event") \notin proc[c].handled.ar.data.events

CancelRemovesOnlyItsEvent ==
    \A m \in TripIds :
        (proc[m].pc = "cal" /\ proc[m].call.handler = "cancel"
            /\ proc'[m].pc = "done" /\ proc'[m].handled.ar.success) =>
            /\ calendar'.events = calendar.events \ {proc[m].call.id}
            /\ calendar'.updated = calendar.updated
            /\ calendar'.nextId = calendar.nextId

C21_CreateCancelListRoundTrip ==
    []CancelledIsGone /\ [][CancelRemovesOnlyItsEvent]_vars

C21_Witness ==
    \E a, b, c \in TripIds :
        /\ a < b /\ b < c
        /\ ActedOn(a, "create_event") # 0
        /\ ActedOn(b, "cancel_event") = ActedOn(a, "create_event")
        /\ Listed(c)
        /\ proc[c].handled.ar.data.events = {1}

(***************************************************************************)
(* C22: after every processed message, one that ended in a failure result  *)
(* included, the user's turn and the assistant's reply have been appended  *)
(* to the user's conversation history (and the session exists, its last    *)
(* activity set by the same call).                                         *)
(***************************************************************************)
TurnsOf(m) ==
    {k \in 1..Len(appendLog[proc[m].user]) : appendLog[proc[m].user][k].content = m}

C22_EveryMessageUpdatesSession ==
    \A m \in MsgIds :
        Done(m) =>
            /\ \E k \in TurnsOf(m) : appendLog[proc[m].user][k].role = "user"
            /\ \E k \in TurnsOf(m) : appendLog[proc[m].user][k].role = "assistant"
            /\ sessions[proc[m].user].exists

(***************************************************************************)
(* C23: a step of the processing of a message of user A leaves the session *)
(* of every other user B as it was: history, PendingIntent, ActiveContext  *)
(* and last activity, whatever else is in flight.                          *)
(***************************************************************************)
OtherSessionsKept ==
    \A m \in MsgIds, u \in Users :
        (proc'[m] # proc[m] /\ proc'[m].user # u) => sessions'[u] = sessions[u]

C23_OtherUsersSessionUntouched == [][OtherSessionsKept]_vars

C23_Witness ==
    \E m, n \in MsgIds :
        /\ proc[m].user = "u1" /\ proc[n].user = "u2"
        /\ proc[m].pc \notin {"idle", "done"}
        /\ sessions["u1"].pendingIntent.set
        /\ Done(n)
        /\ Len(History("u2")) > 0

(***************************************************************************)
(* C24: a sub-intent of the detection response whose confidence is below   *)
(* the threshold, or that carries no confidence, is never dispatched as a  *)
(* calendar action: every request a compound message issues for one of its *)
(* steps belongs to a sub-intent with a numeric confidence of at least     *)
(* CONFIDENCE_THRESHOLD.                                                   *)
(***************************************************************************)
Confident(x) ==
    x.kind = "obj" /\ x.confIsNumber /\ x.confidence >= CONFIDENCE_THRESHOLD

C24_LowConfidenceSubIntentNotDispatched ==
    \A m \in MsgIds :
        proc[m].multi =>
            \A k \in 1..Len(callLog) :
                (callLog[k].msg = m /\ callLog[k].purpose # "resolve") =>
                    Confident(proc[m].intents[callLog[k].step])

(***************************************************************************)
(* C25: when multi-intent detection throws, answers without a              *)
(* multipleIntents array, or lists fewer than two sub-intents,             *)
(* processMessage dispatches nothing from the detection result and runs    *)
(* the single-intent pipeline once: no request is issued before the        *)
(* extraction settles, the one intent validated and executed is the        *)
(* extracted one, and processMessage appends the turn to the history once. *)
(***************************************************************************)
NoCompound(d) ==
    \/ d.threw
    \/ d.json # "obj"
    \/ d.multi # "array"
    \/ d.length <= 1

RequestsFor(m) == {k \in 1..Len(callLog) : callLog[k].msg = m}

C25_NoCompoundRunsSinglePipelineOnce ==
    \A m \in MsgIds :
        (proc[m].detection.set /\ NoCompound(proc[m].detection)) =>
            /\ ~proc[m].multi
            /\ proc[m].results = <<>>
            /\ ~proc[m].extraction.set =>
                    /\ proc[m].pc = "extract"
                    /\ RequestsFor(m) = {}
                    /\ TurnsOf(m) = {}
            /\ proc[m].extraction.set =>
                    /\ proc[m].pc # "extract"
                    /\ \A k \in RequestsFor(m) : callLog[k].step = 1
                    /\ ~proc[m].extraction.threw =>
                            proc[m].intents
                                = <<Extraction(parseIntentResponse(proc[m].extraction.text))>>
            /\ (Done(m) /\ proc[m].result.success) =>
                    /\ proc[m].sessionWritten # 0
                    /\ Cardinality(TurnsOf(m))
                            = IF proc[m].transport = "webhook_auth" THEN 2 ELSE 4

C25_Witness ==
    \E m \in MsgIds :
        /\ Done(m)
        /\ proc[m].detection.set
        /\ ~proc[m].detection.threw
        /\ proc[m].detection.json = "obj"
        /\ proc[m].detection.multi = "array"
        /\ proc[m].detection.length = 1
        /\ proc[m].extraction.text = Single(CancelById, 90)
        /\ proc[m].handled.set
        /\ proc[m].handled.handler = "cancel"
        /\ proc[m].handled.ar.success
        /\ proc[m].transport = "webhook_auth"
        /\ Cardinality(TurnsOf(m)) = 2

(***************************************************************************)
(* C26: a match the matcher returns with a confidence below the match      *)
(* confidence floor is not accepted: the resolution is not_found, carries  *)
(* no event, no event is attached to the validation result and no request  *)
(* is issued on the event.  (The floor is not given a value; a confidence  *)
(* of 0.1, far below the extraction threshold, is taken to be below it.)   *)
(***************************************************************************)
WeakMatch(p) ==
    /\ p.matchText.json = "obj"
    /\ p.matchText.valid
    /\ p.matchText.success
    /\ p.matchText.eventId \in p.events
    /\ p.matchText.confidence <= 10

C26_WeakMatchIsNotFound ==
    \A m \in TripIds :
        (proc[m].resolution.set /\ WeakMatch(proc[m])) =>
            /\ ResolutionStatus(proc[m].resolution) = "not_found"
            /\ proc[m].resolution.event = 0
            /\ proc[m].vr.resolvedEvent = 0
            /\ ~proc[m].vr.requiresAction
            /\ \A k \in 1..Len(callLog) :
                    callLog[k].msg = m => callLog[k].purpose = "resolve"

(***************************************************************************)
(* C27: the resolver keeps not_found apart from ambiguous: when the        *)
(* matcher explicitly reports no match, or its response is rejected        *)
(* (unparseable, ill-typed, or naming an id outside the candidates), the   *)
(* status is not_found.  The matcher's response format has no field that   *)
(* signals several candidates, so no resolution is ambiguous.              *)
(***************************************************************************)
ExplicitNoMatch(p) ==
    p.matchText.json = "obj" /\ p.matchText.valid /\ ~p.matchText.success

RejectedResponse(p) ==
    \/ p.matchText.json # "obj"
    \/ ~p.matchText.valid
    \/ NamesUnknownEvent(p)

C27_NoMatchIsNotFoundNotAmbiguous ==
    \A m \in MsgIds :
        (proc[m].resolution.set /\ (ExplicitNoMatch(proc[m]) \/ RejectedResponse(proc[m]))) =>
            /\ ResolutionStatus(proc[m].resolution) = "not_found"
            /\ ~proc[m].resolution.multipleMatches

(***************************************************************************)
(* C28: for update_event, cancel_event, prepare_event and followup_event   *)
(* with every required field present, validation calls the resolver before *)
(* any action: requires-action is true only once the resolution has found  *)
(* an event, which is the resolved event attached; otherwise the result    *)
(* asks for clarification and no calendar get / update / delete / insert   *)
(* is issued for that intent.                                              *)
(***************************************************************************)
NeedsResolution(x) ==
    /\ x.kind = "obj"
    /\ x.intent \in ResolvingIntents
    /\ x.fields.kind = "map"
    /\ MissingFields(x) = <<>>

\* the step whose validation result proc[m].vr holds
CurrentStep(m) == Min(proc[m].i, Len(proc[m].intents))

HandlerRequests(m, step) ==
    {k \in 1..Len(callLog) :
        callLog[k].msg = m /\ callLog[k].step = step /\ callLog[k].purpose # "resolve"}

C28_ResolverBeforeAction ==
    \A m \in MsgIds :
        /\ \A k \in 1..Len(callLog) :
                (/\ callLog[k].msg = m
                 /\ callLog[k].purpose # "resolve"
                 /\ NeedsResolution(proc[m].intents[callLog[k].step])) =>
                    \E j \in 1..(k - 1) :
                        callLog[j] = Call(m, callLog[k].step, "resolve", "list", 0)
        /\ (proc[m].intents # <<>> /\ NeedsResolution(proc[m].intents[CurrentStep(m)])) =>
                /\ proc[m].vr.requiresAction =>
                        /\ proc[m].resolution.set
                        /\ ResolutionStatus(proc[m].resolution) = "found"
                        /\ proc[m].vr.resolvedEvent = proc[m].resolution.event
                        /\ proc[m].vr.resolvedEvent \in proc[m].events
                        /\ \A k \in HandlerRequests(m, CurrentStep(m)) :
                                callLog[k].req \in {"get", "update", "delete"}
                                    => callLog[k].id = proc[m].vr.resolvedEvent
                /\ ~proc[m].vr.requiresAction =>
                        HandlerRequests(m, CurrentStep(m)) = {}
                /\ (proc[m].resolution.set
                        /\ ResolutionStatus(proc[m].resolution) # "found") =>
                        /\ proc[m].vr.needsClarification
                        /\ ~proc[m].vr.requiresAction

C28_Witness ==
    \E m \in MsgIds :
        /\ Done(m)
        /\ proc[m].multi
        /\ Len(proc[m].intents) = 2
        /\ proc[m].intents[1] = CancelById
        /\ proc[m].intents[2] = UpdateById
        /\ Len(proc[m].results) = 2
        /\ ~proc[m].results[1].success
        /\ HandlerRequests(m, 1) = {}
        /\ proc[m].results[2].success
        /\ proc[m].vr.requiresAction
        /\ \E k \in HandlerRequests(m, 2) : callLog[k].req = "update"

(***************************************************************************)
(* C29: an intent outside the INTENTS enumeration that reaches the         *)
(* dispatcher is a fatal defect: no calendar request is issued for it,     *)
(* and in a compound message it is not recorded as one more failed step    *)
(* after which the remaining steps are run.                                *)
(***************************************************************************)
Unsupported(x) ==
    x.kind = "obj" /\ x.intent # "" /\ x.intent \notin INTENTS

C29_UnsupportedIntentIsFatal ==
    \A m \in MsgIds :
        \A k \in 1..Len(proc[m].intents) :
            Unsupported(proc[m].intents[k]) =>
                /\ HandlerRequests(m, k) = {}
                /\ proc[m].multi =>
                        /\ Len(proc[m].results) < k
                        /\ \A j \in 1..Len(callLog) :
                                callLog[j].msg = m => callLog[j].step <= k

(***************************************************************************)
(* C30: executePrepareEvent returns success = true with the event and the  *)
(* static notes text when the event was fetched and only the notes call    *)
(* failed; it returns success = false exactly when fetching the event      *)
(* failed.                                                                 *)
(***************************************************************************)
C30_PrepareDegradesFailedNotes ==
    \A m \in MsgIds :
        (proc[m].handled.set /\ proc[m].handled.handler = "prepare") =>
            /\ proc[m].handled.failed = "nlu" =>
                    /\ proc[m].handled.ar.success
                    /\ proc[m].handled.ar.data.action = "prepare_event"
                    /\ proc[m].handled.ar.data.event = proc[m].vr.resolvedEvent
                    /\ proc[m].handled.ar.data.notes
                            = Text("Unable to generate notes at this time.")
            /\ proc[m].handled.failed = "none" =>
                    /\ proc[m].handled.ar.success
                    /\ proc[m].handled.ar.data.notes = Text("<generated notes>")
            /\ ~proc[m].handled.ar.success <=> proc[m].handled.failed = "calendar"

C30_Witness ==
    \E m \in MsgIds :
        /\ Done(m)
        /\ proc[m].handled.set
        /\ proc[m].handled.handler = "prepare"
        /\ proc[m].handled.failed = "nlu"
        /\ proc[m].handled.ar.success
        /\ proc[m].handled.ar.data.event \in {1, 2}
        /\ \E k \in HandlerRequests(m, 1) :
                callLog[k].req = "get" /\ callLog[k].id = proc[m].handled.ar.data.event

(***************************************************************************)
(* SpecMerge: CalendarService.updateEvent applied to one stored event and  *)
(* one update payload: events.get, mergeEventData, events.update.          *)
(***************************************************************************)
MergeEvaluated ==
    /\ \A e \in StoredEvents : e = e
    /\ \A d \in UpdatePayloads : d = d

InitMerge ==
    /\ InitCommon
    /\ MergeEvaluated
    /\ calendar = [events |-> {1}, nextId |-> 2, updated |-> {}]
    /\ Detached({"calendarService", "client"})
    /\ \E e \in StoredEvents : merge = [NoMerge EXCEPT !.stored = e]

MergeFrame ==
    UNCHANGED <<sessions, appendLog, calendar, callLog, proc, arrivals, nluText,
                calendarService, client, parsed, clock>>

\* updateEvent(eventId, updateData, user) up to `await this.calendar.events.get`
UpdateEventCall(updateData) ==
    /\ merge.pc = "idle"
    /\ merge' = [merge EXCEPT !.pc = "get", !.updateData = updateData]
    /\ MergeFrame

\* events.get settles: mergeEventData, then `await this.calendar.events.update`;
\* a rejection is rethrown as "Failed to update calendar event"
UpdateEventGetReturn(ok) ==
    /\ merge.pc = "get"
    /\ merge' =
         IF ok
         THEN [merge EXCEPT !.pc = "update", !.existingEvent = merge.stored,
                            !.merged = mergeEventData(merge.stored, merge.updateData,
                                           clock.now * 60 * SubMinute)]
         ELSE [merge EXCEPT !.pc = "failed"]
    /\ MergeFrame

\* events.update settles: the backend holds requestBody, or the call is rethrown
UpdateEventUpdateReturn(ok) ==
    /\ merge.pc = "update"
    /\ merge' =
         IF ok THEN [merge EXCEPT !.pc = "updated", !.stored = merge.merged]
         ELSE [merge EXCEPT !.pc = "failed"]
    /\ MergeFrame

NextMerge ==
    \/ \E d \in UpdatePayloads : UpdateEventCall(d)
    \/ \E ok \in BOOLEAN : UpdateEventGetReturn(ok)
    \/ \E ok \in BOOLEAN : UpdateEventUpdateReturn(ok)

SpecMerge == InitMerge /\ [][NextMerge]_vars

(***************************************************************************)
(* C31: when the update payload carries a date and a time but neither an   *)
(* end time nor a duration, the merged event lasts as many minutes as the  *)
(* original event; and every field among title, description, location and  *)
(* attendees for which the payload carries no value is the same in the     *)
(* merged event as in the original.                                        *)
(***************************************************************************)
Merged == merge.pc \in {"update", "updated"}

\* end minus start of an event, in minutes
LengthInMinutes(e) == DiffMinutes(e.end.at, e.start.at)

RetimedOnly(d) ==
    /\ {"date", "time"} \subseteq d.carries
    /\ "end" \notin d.carries
    /\ "duration" \notin d.carries

C31_DurationAndUnsetFieldsPreserved ==
    Merged =>
        /\ RetimedOnly(merge.updateData) =>
                LengthInMinutes(merge.merged) = LengthInMinutes(merge.existingEvent)
        /\ "title" \notin merge.updateData.carries =>
                merge.merged.summary = merge.existingEvent.summary
        /\ "description" \notin merge.updateData.carries =>
                merge.merged.description = merge.existingEvent.description
        /\ "location" \notin merge.updateData.carries =>
                merge.merged.location = merge.existingEvent.location
        /\ "attendees" \notin merge.updateData.carries =>
                merge.merged.attendees = merge.existingEvent.attendees

(***************************************************************************)
(* C37: an attendee patch applied through updateEvent (by update_event or  *)
(* by a context continuation, which passes { attendees: [email] }) keeps   *)
(* the attendees the event already had: the attendees of the merged event  *)
(* are the previous attendees together with the valid email addresses of   *)
(* the patch.                                                              *)
(***************************************************************************)
C37_AttendeePatchKeepsAttendees ==
    (Merged /\ "attendees" \in merge.updateData.carries) =>
        Range(merge.merged.attendees) =
            Range(merge.existingEvent.attendees)
                \cup Range(FilterValidEmails(merge.updateData.attendees))

(***************************************************************************)
(* C33: a message delivered by the socket, or by the webhook without an    *)
(* authenticated user, and processed successfully adds exactly one user    *)
(* turn and one assistant turn to the conversation history of its user.    *)
(***************************************************************************)
TurnsBy(m, role) ==
    {k \in TurnsOf(m) : appendLog[proc[m].user][k].role = role}

C33_TransportAppendsOnce ==
    \A m \in MsgIds :
        (Done(m) /\ proc[m].result.success /\ proc[m].transport \in {"socket", "webhook"}) =>
            /\ Cardinality(TurnsBy(m, "user")) = 1
            /\ Cardinality(TurnsBy(m, "assistant")) = 1

(***************************************************************************)
(* C34: in the single-intent path the success flag of the result that      *)
(* processMessage returns agrees with the outcome of the dispatched        *)
(* action: when the ActionResult of the handler has success false,         *)
(* processMessage returns success false.                                   *)
(***************************************************************************)
C34_ResultAgreesWithAction ==
    \A m \in MsgIds :
        (Done(m) /\ ~proc[m].multi /\ proc[m].handled.set /\ ~proc[m].handled.ar.success) =>
            ~proc[m].result.success

(***************************************************************************)
(* SpecTurns: two messages of one user processed concurrently over the     *)
(* socket, on a history that the transport's appends of earlier messages   *)
(* fill up to and past the 20-turn window.                                 *)
(***************************************************************************)
\* an exchange of u1 that was appended before the two messages arrive
EarlierExchange ==
    /\ arrivals = 0
    /\ SessionAppend("u1")

NextTurns ==
    \/ \E m \in MsgIds : Arrive(m, "u1", "socket", OtherText)
    \/ \E m \in MsgIds : DetectReturn(m, TRUE, NluGarbage("none"))
    \/ \E m \in MsgIds : DetectReturn(m, FALSE, FrameCompound)
    \/ \E m \in MsgIds, t \in FrameExtractPool : ExtractReturn(m, FALSE, t)
    \/ \E m \in MsgIds, ok \in BOOLEAN : CalendarReturn(m, ok)
    \/ EarlierExchange

SpecTurns == Init /\ [][NextTurns]_vars

(***************************************************************************)
(* C35: in every reachable state the conversation history of a session has *)
(* even length and alternates user turn, assistant turn, starting with a   *)
(* user turn; a user turn and its assistant reply are appended together    *)
(* and leave the window together, also when several messages of the same   *)
(* user are processed concurrently.                                        *)
(***************************************************************************)
Alternates(h) ==
    /\ Len(h) % 2 = 0
    /\ \A k \in 1..Len(h) : h[k].role = IF k % 2 = 1 THEN "user" ELSE "assistant"
    /\ \A k \in 1..Len(h) : k % 2 = 1 => h[k].content = h[k + 1].content

C35_HistoryAlternates ==
    \A u \in Users :
        /\ Alternates(History(u))
        /\ Alternates(appendLog[u])
        /\ History(u) = SliceLast(appendLog[u], Len(History(u)))

\* message 2 of u1 has returned and its turns have pushed older turns out of
\* the full window while message 1 of u1 still waits on the calendar
C35_Witness ==
    /\ proc[1].user = "u1" /\ proc[1].pc = "cal"
    /\ proc[2].user = "u1" /\ Done(2) /\ proc[2].result.success
    /\ Len(History("u1")) = HistoryCap
    /\ Len(appendLog["u1"]) > HistoryCap + 2

(***************************************************************************)
(* SpecPending: messages of the two users, some of which store a           *)
(* PendingIntent, processed one after the other while time passes and the  *)
(* hourly sweep runs.                                                      *)
(***************************************************************************)
NextPending ==
    \/ \E d \in {12, 13} : Tick(d)
    \/ Sweep
    \/ \E m \in MsgIds, u \in Users : ArriveNext(m, u, OtherText)
    \/ \E m \in MsgIds : DetectReturn(m, TRUE, NluGarbage("none"))
    \/ \E m \in MsgIds : DetectReturn(m, FALSE, PendingCompound)
    \/ \E m \in MsgIds, t \in PendingExtractPool : ExtractReturn(m, FALSE, t)
    \/ \E m \in MsgIds, ok \in BOOLEAN : CalendarReturn(m, ok)

SpecPending == Init /\ [][NextPending]_vars

(***************************************************************************)
(* C36: once a PendingIntent is stored on a session no later message       *)
(* consumes, merges into or clears it: a step changes its value only by    *)
(* overwriting it with the PendingIntent of a missing-field clarification  *)
(* made in that step (by a single intent or by a sub-intent of a compound  *)
(* message) for the same user; otherwise it stays as it is until the       *)
(* session is evicted.                                                     *)
(***************************************************************************)
\* the steps of the invocation p that were answered with a missing-field clarification
ClarifiedIn(p) ==
    {k \in 1..Len(p.intents) :
        /\ HasMissingField(p.intents[k])
        /\ IF p.multi THEN k <= Len(p.results) ELSE p.pc = "done"}

PendingOf(x) ==
    [set |-> TRUE, intent |-> x.intent, fields |-> x.fields,
     missingFields |-> MissingFields(x)]

OverwrittenByClarification(u) ==
    \E m \in MsgIds :
        /\ proc'[m].user = u
        /\ \E k \in ClarifiedIn(proc'[m]) \ ClarifiedIn(proc[m]) :
                sessions'[u].pendingIntent = PendingOf(proc'[m].intents[k])

PendingKept(u) ==
    sessions[u].pendingIntent.set =>
        \/ sessions'[u].pendingIntent = sessions[u].pendingIntent
        \/ OverwrittenByClarification(u)
        \/ ~sessions'[u].exists /\ clock'.sweeps = clock.sweeps + 1

InitCredentials ==
    /\ InitCommon
    /\ calendar = [events |-> {1}, nextId |-> 2, updated |-> {}]
    /\ Detached({"merge", "client"})
    /\ \E tokens \in {"none", "server"}, keyed \in SUBSET Users :
            calendarService =
                [NoService EXCEPT !.tokens = tokens, !.credentials = tokens,
                                  !.keyed = keyed]

CredentialsFrame ==
    UNCHANGED <<sessions, appendLog, calendar, callLog, proc, arrivals, nluText,
                merge, client, parsed, clock>>

\* createEvent(eventData, user) up to `await this.calendar.events.insert`
CreateEventCall(c, userId, passed) ==
    /\ calendarService.calls[c].pc = "idle"
    /\ calendarService' = MethodCall(calendarService, c, userId, passed, "insert")
    /\ CredentialsFrame

\* updateEvent(eventId, updateData, user) up to `await this.calendar.events.get`
UpdateEventCallFor(c, userId, passed) ==
    /\ calendarService.calls[c].pc = "idle"
    /\ calendarService' = MethodCall(calendarService, c, userId, passed, "get")
    /\ CredentialsFrame

\* events.get settles in updateEvent: the merged event is sent with events.update,
\* through the shared client as it is now; a rejection is rethrown
GetReturn(c, ok) ==
    /\ calendarService.calls[c].pc = "get"
    /\ calendarService' =
         IF ok
         THEN [calendarService EXCEPT
                 !.calls[c].pc = "update",
                 !.requests = Append(@, Request(c, calendarService.calls[c].userId,
                                                "update", calendarService.credentials))]
         ELSE [calendarService EXCEPT !.calls[c].pc = "threw"]
    /\ CredentialsFrame

\* events.insert or events.update settles: the method returns or rethrows
LastReturn(c, ok) ==
    /\ calendarService.calls[c].pc \in {"insert", "update"}
    /\ calendarService' =
         [calendarService EXCEPT !.calls[c].pc = IF ok THEN "returned" ELSE "threw"]
    /\ CredentialsFrame

NextCredentials ==
    \/ \E c \in CallIds, u \in Users, passed \in BOOLEAN : CreateEventCall(c, u, passed)
    \/ \E c \in CallIds, u \in Users, passed \in BOOLEAN : UpdateEventCallFor(c, u, passed)
    \/ \E c \in CallIds, ok \in BOOLEAN : GetReturn(c, ok)
    \/ \E c \in CallIds, ok \in BOOLEAN : LastReturn(c, ok)

SpecCredentials == InitCredentials /\ [][NextCredentials]_vars

(***************************************************************************)
(* C32: every calendar request issued while a message of user U is         *)
(* processed is made with U's own credentials, or with the server's stored *)
(* tokens when U has none, and never with the credentials of another user, *)
(* under any interleaving; the second request of updateEvent included.     *)
(***************************************************************************)
CredentialsOf(userId) ==
    IF userId \in calendarService.keyed THEN userId ELSE "server"

C32_RequestsUseOwnCredentials ==
    \A k \in 1..Len(calendarService.requests) :
        calendarService.requests[k].with = CredentialsOf(calendarService.requests[k].userId)

(***************************************************************************)
(* SpecClient: the chat client sending messages over its socket, or over   *)
(* the webhook when the socket is not connected, and the server's          *)
(* chat_message handler answering them.                                    *)
(***************************************************************************)
ClientFrame ==
    UNCHANGED <<sessions, appendLog, calendar, callLog, proc, arrivals, nluText,
                merge, calendarService, parsed, clock>>

\* the id of line 37 is the _id of the profile the server returned
InitClient ==
    /\ InitCommon
    /\ calendar = [events |-> {1}, nextId |-> 2, updated |-> {}]
    /\ Detached({"merge", "calendarService"})
    /\ \E id \in {"u1", ""} : client = [NoClient EXCEPT !.userId = id]

\* socket.on('connect')
SocketConnect ==
    /\ ~client.isConnected
    /\ client' = [client EXCEPT !.isConnected = TRUE, !.error = ""]
    /\ ClientFrame

\* the connection drops, socket.on('disconnect'): what was in flight on the
\* socket is lost, and the handler that is still running will emit on a closed socket
SocketDisconnect ==
    /\ client.isConnected
    /\ client' = [client EXCEPT !.isConnected = FALSE, !.outbox = <<>>, !.inbox = <<>>,
                                !.serving = IF @ = "busy" THEN "orphan" ELSE @]
    /\ ClientFrame

\* useChat.sendMessage(text) for a text that is not blank
sendMessage ==
    /\ ~client.isLoading
    /\ client.sends < MaxSends
    /\ client' =
         IF client.isConnected
         THEN [client EXCEPT !.isLoading = TRUE, !.error = "", !.sends = @ + 1,
                             !.messages = Append(@, "user"), !.answered = FALSE,
                             !.outbox = Append(@, [text |-> "hello",
                                                   userId |-> client.userId])]
         ELSE [client EXCEPT !.isLoading = TRUE, !.error = "", !.sends = @ + 1,
                             !.messages = Append(@, "user"), !.answered = FALSE,
                             !.fetching = TRUE]
    /\ ClientFrame

\* app.js socket.on('chat_message') up to `await intentProcessor.processMessage`
ServerChatMessage ==
    /\ client.outbox # <<>>
    /\ client.serving = "idle"
    /\ LET data == Head(client.outbox)
       IN  client' =
             IF data.text = "" \/ data.userId = ""
             THEN [client EXCEPT !.outbox = Tail(@), !.answered = TRUE,
                                 !.inbox = Append(@, ErrorEvent("Invalid message format"))]
             ELSE [client EXCEPT !.outbox = Tail(@), !.serving = "busy"]
    /\ ClientFrame

\* processMessage has returned `result`: socket.emit('chat_response', result)
ServerChatResponse(success) ==
    /\ client.serving \in {"busy", "orphan"}
    /\ client' =
         IF client.serving = "busy"
         THEN [client EXCEPT !.serving = "idle", !.answered = TRUE,
                             !.inbox = Append(@, ChatResponse(success))]
         ELSE [client EXCEPT !.serving = "idle", !.answered = TRUE]
    /\ ClientFrame

\* the client receives the event: socket.on('chat_response') / socket.on('error')
ClientReceive ==
    /\ client.inbox # <<>>
    /\ LET event == Head(client.inbox)
           c == [client EXCEPT !.inbox = Tail(@)]
       IN  client' =
             IF event.type = "chat_response"
             THEN handleChatResponse(c, ChatResponse(event.success))
             ELSE handleSocketError(c, event)
    /\ ClientFrame

\* the fetch of the webhook settles: a JSON body handed to handleChatResponse,
\* or a rejection (network failure, a body that is not JSON) handled by the catch
FetchReturn(outcome) ==
    /\ client.fetching
    /\ client' =
         IF outcome = "rejected"
         THEN [client EXCEPT !.fetching = FALSE, !.isLoading = FALSE,
                             !.error = "Failed to send message. Please try again."]
         ELSE handleChatResponse([client EXCEPT !.fetching = FALSE, !.answered = TRUE],
                                 ChatResponse(outcome = "success"))
    /\ ClientFrame

NextClient ==
    \/ SocketConnect
    \/ SocketDisconnect
    \/ sendMessage
    \/ ServerChatMessage
    \/ \E success \in BOOLEAN : ServerChatResponse(success)
    \/ ClientReceive
    \/ \E outcome \in {"success", "failure", "rejected"} : FetchReturn(outcome)

\* what is in flight is delivered and what the server has started returns
ClientFairness ==
    /\ WF_vars(ServerChatMessage)
    /\ WF_vars(\E success \in BOOLEAN : ServerChatResponse(success))
    /\ WF_vars(ClientReceive)
    /\ WF_vars(\E outcome \in {"success", "failure", "rejected"} : FetchReturn(outcome))

SpecClient == InitClient /\ [][NextClient]_vars /\ ClientFairness

(***************************************************************************)
(* C38: after sendMessage has set isLoading, isLoading returns to false    *)
(* once the server has answered the message, with a chat_response event or *)
(* with an error event: the client does not stay in the loading state, in  *)
(* which sendMessage and the input are blocked.                            *)
(***************************************************************************)
C38_LoadingEnds == (client.isLoading /\ client.answered) ~> ~client.isLoading

====
